---- MODULE Spec2Model ----
(***************************************************************************)
(* Model of the abductive reasoning orchestrator of peircean-abduction:    *)
(* AbductionAgent.abduce / single_shot (src/peircean/core/agent.py), the   *)
(* Council of Critics fan-out, and the count validation of the MCP tools   *)
(* (src/peircean/mcp/server.py).                                           *)
(*                                                                         *)
(* Floats in [0,1] are modelled in tenths: 0.5 is 5, 1.0 is 10.            *)
(* Python's None is the string "None" where the field holds strings, and   *)
(* the empty tuple <<>> where the field holds an optional record.          *)
(* A JSON object / Python dict is a function whose domain is the set of    *)
(* keys that are present.                                                  *)
(***************************************************************************)
EXTENDS Integers, Sequences, FiniteSets, TLC

\* ------------------------------------------------------------------------
\* Bounds of the model
\* ------------------------------------------------------------------------
\* longest "hypotheses" array the oracle answers with
MaxHyps == 2
\* longest text handed to the parser on its own, before any fence is put
\* around it
MaxText == 5

\* ------------------------------------------------------------------------
\* Program constants
\* ------------------------------------------------------------------------
\* Field(default=0.5) / data.get(..., 0.5), in tenths
DefaultScore == 5
\* Field(ge=0.0), in tenths
ScoreMin == 0
\* Field(le=1.0), in tenths
ScoreMax == 10
\* num_hypotheses < 1 is rejected by the MCP tools
MinCount == 1
\* num_hypotheses > 20 is rejected by the MCP tools
MaxCount == 20
\* max_hypotheses: int = 5
DefaultCount == 5

\* critics = ["empiricist", "logician", "pragmatist", "economist", "skeptic"]
critics == <<"empiricist", "logician", "pragmatist", "economist", "skeptic">>

Critics == {critics[i] : i \in 1..Len(critics)}

\* the seven fields of HypothesisScores
Dimensions ==
    {"explanatory_scope", "explanatory_power", "parsimony", "testability",
     "consilience", "analogy", "fertility"}

\* ------------------------------------------------------------------------
\* JSON values and dict access
\* ------------------------------------------------------------------------
\* the empty dict {}
EmptyMap == [k \in {} |-> "None"]

\* dict.get(key, default)
Get(d, k, def) == IF k \in DOMAIN d THEN d[k] ELSE def

\* What the oracle's text is, as far as json.loads is concerned:
\*   "invalid"   - json.loads raises JSONDecodeError
\*   "nonobject" - json.loads returns a list, string, number or null
\*   "object"    - json.loads returns the dict `data`
Invalid == [json |-> "invalid", data |-> EmptyMap]
NonObject == [json |-> "nonobject", data |-> EmptyMap]
Obj(d) == [json |-> "object", data |-> d]

\* mutant: json.loads outside the try block, a decode error is an exception
\* like the one of a non-dict
ParseJsonUncaught(resp) == [isdict |-> resp.json = "object", map |-> resp.data]

\* AbductionAgent._parse_json: {} on a decode error, else whatever
\* json.loads returned (the cast is a no-op at run time)
ParseJson(resp) ==
    IF resp.json = "invalid"
    THEN [isdict |-> TRUE, map |-> EmptyMap]
    ELSE [isdict |-> resp.json = "object", map |-> resp.data]

\* pydantic Field(ge=0.0, le=1.0)
\* mutant: the models accept every number
InUnitUnbounded(x) == x = x

InUnit(x) == ScoreMin <= x /\ x <= ScoreMax

\* HypothesisScores() with every dimension at its default
DefaultScores == [d \in Dimensions |-> DefaultScore]

\* HypothesisScores(explanatory_scope=scores_data.get(..., 0.5), ...) as
\* _evaluate_hypotheses builds it
ScoresFrom(scores_data) == [d \in Dimensions |-> Get(scores_data, d, DefaultScore)]

\* surprise_map.get(data.get("surprise_level", "surprising"), SURPRISING)
SurpriseLevelOf(data) ==
    LET label == Get(data, "surprise_level", "surprising")
    IN  IF label \in {"expected", "mild", "surprising", "high", "anomalous"}
        THEN label ELSE "surprising"

\* ------------------------------------------------------------------------
\* Inputs: what callers pass and what the oracle answers
\* ------------------------------------------------------------------------
\* observation arguments of abduce: a text, or a pre-built Observation
TextArg == [kind |-> "text", fact |-> "T", surprise_level |-> "surprising",
            surprise_score |-> DefaultScore]
ObjectArg == [kind |-> "object", fact |-> "F", surprise_level |-> "expected",
              surprise_score |-> 9]
ObservationArgs == {TextArg, ObjectArg}

\* use_council argument of abduce: None, True or False
UseCouncilArgs ==
    {[given |-> FALSE, value |-> FALSE],
     [given |-> TRUE, value |-> TRUE],
     [given |-> TRUE, value |-> FALSE]}

\* hypothesis counts a caller may ask for
Counts == {MinCount - 1, MinCount, DefaultCount, MaxCount, MaxCount + 1}

\* ids the oracle uses
OracleIds == {"H1", "H2"}

\* one entry of the oracle's "hypotheses" array: with or without an id
HypEntries == {EmptyMap, [id |-> "H1"]}

RECURSIVE SeqsUpTo(_, _)
\* all sequences over S of length at most n
SeqsUpTo(S, n) ==
    IF n = 0 THEN {<<>>}
    ELSE LET shorter == SeqsUpTo(S, n - 1)
         IN  shorter \cup {Append(s, x) : s \in {t \in shorter : Len(t) = n - 1}, x \in S}

ObservationResponses ==
    {Invalid, NonObject, Obj(EmptyMap),
     Obj([surprise_level |-> "high", surprise_score |-> 8]),
     Obj([surprise_score |-> ScoreMax + 5])}

GenerationResponses ==
    {Invalid, NonObject, Obj(EmptyMap)}
    \cup {Obj([hypotheses |-> hs]) : hs \in SeqsUpTo(HypEntries, MaxHyps)}
    \cup {Obj([hypotheses |-> <<[id |-> "H1", prior_probability |-> ScoreMax + 5]>>]),
          Obj([hypotheses |-> <<[id |-> "H1", prior_probability |-> ScoreMin - 1]>>])}

EvaluationResponses ==
    {Invalid, NonObject, Obj(EmptyMap),
     Obj([evaluations |-> <<[hypothesis_id |-> "H1",
                             scores |-> [explanatory_power |-> 7]]>>]),
     Obj([evaluations |-> <<[hypothesis_id |-> "H2",
                             scores |-> [parsimony |-> 2, fertility |-> 9]],
                            [hypothesis_id |-> "H3"]>>]),
     Obj([evaluations |-> <<[scores |-> EmptyMap]>>]),
     Obj([evaluations |-> <<[hypothesis_id |-> "H1",
                             scores |-> [testability |-> ScoreMax + 5]]>>]),
     Obj([evaluations |-> <<[hypothesis_id |-> "H1",
                             scores |-> [analogy |-> ScoreMin - 1]]>>])}

SelectionResponses ==
    {Invalid, NonObject, Obj(EmptyMap),
     Obj([selected_hypothesis |-> "H1", confidence |-> 8,
          recommended_actions |-> <<"a1">>]),
     Obj([selected_hypothesis |-> "H3"]),
     Obj([confidence |-> ScoreMax + 5])}

CriticResponses ==
    {Invalid, NonObject, Obj(EmptyMap)}
    \cup {Obj([evaluation |-> "ok", recommended_hypothesis |-> h]) : h \in OracleIds}

SingleShotResponses ==
    {Invalid, NonObject, Obj(EmptyMap), Obj([note |-> "n"]),
     Obj([hypotheses |-> <<[id |-> "H1", scores |-> [parsimony |-> 8]], EmptyMap>>]),
     Obj([selection |-> [confidence |-> ScoreMax + 5]]),
     Obj([observation_analysis |-> [surprise_score |-> ScoreMin - 1]]),
     Obj([hypotheses |-> <<[id |-> "H1", scores |-> [consilience |-> ScoreMax + 5]]>>]),
     Obj([hypotheses |-> <<[prior_probability |-> ScoreMax + 5]>>]),
     Obj([observation_analysis |-> [surprise_score |-> 7],
          selection |-> [best_hypothesis |-> "H1", confidence |-> 9]]),
     Obj([observation_analysis |-> [fact |-> "G"],
          hypotheses |-> <<[id |-> "H2"]>>,
          selection |-> [best_hypothesis |-> "H2", rationale |-> "r",
                         recommended_actions |-> <<"a1">>]])}

\* ------------------------------------------------------------------------
\* State
\* ------------------------------------------------------------------------
VARIABLES
    llm_call_async,   \* self.llm_call_async is set
    llm_call,         \* self.llm_call is set
    use_council,      \* self.use_council
    max_hypotheses,   \* self.max_hypotheses
    entry,            \* the entry point called: "none", "abduce", "single_shot"
    pc,               \* where the run is: "idle", the phase whose delegation
                      \* is awaited, "council", "done" or "failed"
    observation,      \* the observation argument of the run
    use_council_arg,  \* the use_council argument of the run
    obs,              \* abduce's obs: <<>> or <<Observation>>
    hypotheses,       \* the run's list of Hypothesis objects
    reasoning_trace,  \* abduce's reasoning_trace: the phases of its steps
    calls,            \* every oracle delegation issued so far, in order
    inflight,         \* the delegations issued and not yet returned or raised
    critic,           \* per critic: the state of its _run_critic task and, once
                      \* it ended, the CriticEvaluation or exception gather holds
    oracle_named,     \* per critic: the hypothesis its oracle answer named
    council_eval,     \* abduce's council_eval: <<>> or <<CouncilEvaluation>>
    result,           \* <<>> or <<the AbductionResult returned>>
    error,            \* "None" or the exception that ended the run
    mcp_request,      \* <<>> or <<the MCP tool call made: tool and arguments>>
    mcp_response,     \* <<>> or <<what that tool call returned>>
    fn,               \* the function called on its own, outside a run: its
                      \* name, its arguments and, once it returned, its result
    other             \* the locals of a second abduce coroutine of the same
                      \* agent, suspended while the first one runs

agent == <<llm_call_async, llm_call, use_council, max_hypotheses>>

run == <<entry, pc, observation, use_council_arg, obs, hypotheses, reasoning_trace,
         calls, inflight, critic, oracle_named, council_eval, result, error>>

mcp == <<mcp_request, mcp_response>>

vars == <<agent, run, mcp, fn, other>>

\* ------------------------------------------------------------------------
\* AbductionAgent._call_llm
\* ------------------------------------------------------------------------
\* mutant: the blocking function is called on the event loop's thread
CallLlmDirect ==
    IF llm_call_async THEN "await"
    ELSE IF llm_call THEN "direct"
    ELSE "raise"

\* mutant: no check that an oracle function was supplied
CallLlmUnchecked ==
    IF llm_call_async THEN "await" ELSE "executor"

\* How a delegation is made: "await" awaits llm_call_async(prompt),
\* "executor" awaits loop.run_in_executor(None, llm_call, prompt), both of
\* which suspend the calling task and leave the event loop running;
\* "raise" is the RuntimeError of an agent without an oracle.  A "direct"
\* call would run the blocking function on the event loop's thread.
CallLlm ==
    IF llm_call_async THEN "await"
    ELSE IF llm_call THEN "executor"
    ELSE "raise"

\* the event loop's thread is inside a blocking call
Blocked == \E c \in inflight : c.how = "direct"

\* the continuation of the task awaiting delegation `tag` can run
CanResume(tag) ==
    /\ \E c \in inflight : c.tag = tag
    /\ \A c \in inflight : c.how = "direct" => c.tag = tag

\* the delegations in flight once `tag` has returned or raised
Returned(tag) == {c \in inflight : c.tag # tag}

\* the run ends with exception e
Raise(e) ==
    /\ pc' = "failed"
    /\ error' = e

\* the run issues delegation `tag`, the one awaited before (`prev`) being over,
\* and suspends in phase `tag`
Delegate(prev, tag) ==
    IF CallLlm = "raise"
    THEN /\ Raise("RuntimeError")
         /\ inflight' = Returned(prev)
         /\ calls' = calls
    ELSE /\ pc' = tag
         /\ error' = error
         /\ inflight' = Returned(prev) \cup {[tag |-> tag, how |-> CallLlm]}
         /\ calls' = Append(calls, tag)

\* no _run_critic task exists for the critic
NoTask == [st |-> "none", value |-> <<>>]

\* ------------------------------------------------------------------------
\* Initial state: an agent as constructed, no run started
\* ------------------------------------------------------------------------
\* the locals of the coroutine that is running, as a record
Locals ==
    [entry |-> entry, pc |-> pc, observation |-> observation,
     use_council_arg |-> use_council_arg, obs |-> obs, hypotheses |-> hypotheses,
     reasoning_trace |-> reasoning_trace, calls |-> calls, inflight |-> inflight,
     critic |-> critic, oracle_named |-> oracle_named, council_eval |-> council_eval,
     result |-> result, error |-> error]

\* the locals of a coroutine that was not started
NotStarted ==
    [entry |-> "none", pc |-> "idle", observation |-> TextArg,
     use_council_arg |-> [given |-> FALSE, value |-> FALSE], obs |-> <<>>,
     hypotheses |-> <<>>, reasoning_trace |-> <<>>, calls |-> <<>>, inflight |-> {},
     critic |-> [c \in Critics |-> NoTask],
     oracle_named |-> [c \in Critics |-> "None"], council_eval |-> <<>>,
     result |-> <<>>, error |-> "None"]

\* no run was started and no tool was called
NoRun ==
    /\ other = NotStarted
    /\ entry = "none"
    /\ pc = "idle"
    /\ observation = TextArg
    /\ use_council_arg = [given |-> FALSE, value |-> FALSE]
    /\ obs = <<>>
    /\ hypotheses = <<>>
    /\ reasoning_trace = <<>>
    /\ calls = <<>>
    /\ inflight = {}
    /\ critic = [c \in Critics |-> NoTask]
    /\ oracle_named = [c \in Critics |-> "None"]
    /\ council_eval = <<>>
    /\ result = <<>>
    /\ error = "None"
    /\ mcp_request = <<>>
    /\ mcp_response = <<>>

\* no function is called on its own
NoCall == [name |-> "none"]

\* AbductionAgent(llm_call=..., llm_call_async=..., use_council=...)
Init ==
    /\ llm_call_async \in BOOLEAN
    /\ llm_call \in BOOLEAN
    /\ use_council \in BOOLEAN
    /\ max_hypotheses = DefaultCount
    /\ NoRun
    /\ fn = NoCall

\* ------------------------------------------------------------------------
\* abduce: phase 1
\* ------------------------------------------------------------------------
\* mutant: a pre-built Observation is analysed like a text
IsTextAlways(o) == TRUE

\* isinstance(observation, str)
IsText(o) == o.kind = "text"

\* abduce(observation, context, use_council) up to its first await
AbduceStart(o, uc) ==
    /\ pc = "idle"
    /\ entry' = "abduce"
    /\ observation' = o
    /\ use_council_arg' = uc
    /\ IF IsText(o)
       THEN /\ Delegate("none", "observation")
            /\ UNCHANGED <<obs, reasoning_trace>>
       ELSE /\ obs' = <<[fact |-> o.fact, surprise_level |-> o.surprise_level,
                         surprise_score |-> o.surprise_score]>>
            /\ reasoning_trace' = Append(reasoning_trace, "observation")
            /\ Delegate("none", "generation")
    /\ UNCHANGED <<agent, hypotheses, critic, oracle_named, council_eval, result,
                   mcp, fn, other>>

\* _analyze_observation after its delegation returned `resp`, then abduce
\* up to the generation delegation
ObservationReturn(resp) ==
    /\ pc = "observation"
    /\ CanResume("observation")
    /\ LET data == ParseJson(resp)
           score == Get(data.map, "surprise_score", DefaultScore)
       IN  IF ~data.isdict
           THEN /\ Raise("AttributeError")
                /\ inflight' = Returned("observation")
                /\ UNCHANGED <<obs, reasoning_trace, calls>>
           ELSE IF ~InUnit(score)
           THEN /\ Raise("ValidationError")
                /\ inflight' = Returned("observation")
                /\ UNCHANGED <<obs, reasoning_trace, calls>>
           ELSE /\ obs' = <<[fact |-> observation.fact,
                             surprise_level |-> SurpriseLevelOf(data.map),
                             surprise_score |-> score]>>
                /\ reasoning_trace' = Append(reasoning_trace, "observation")
                /\ Delegate("observation", "generation")
    /\ UNCHANGED <<agent, entry, observation, use_council_arg, hypotheses, critic,
                   oracle_named, council_eval, result, mcp, fn, other>>

\* ------------------------------------------------------------------------
\* abduce: phase 2
\* ------------------------------------------------------------------------
\* f"H{n}"
DefaultId(n) == <<"H1", "H2", "H3", "H4", "H5">>[n]

RECURSIVE BuildHypotheses(_, _)
\* the loop of _generate_hypotheses over data.get("hypotheses", []):
\* `built` is the list so far, `entries` what is left of the array
BuildHypotheses(built, entries) ==
    IF entries = <<>> THEN built
    ELSE LET h_data == Head(entries)
             h == [id |-> Get(h_data, "id", DefaultId(Len(built) + 1)),
                   prior_probability |-> Get(h_data, "prior_probability", DefaultScore),
                   scores |-> DefaultScores]
         IN  BuildHypotheses(Append(built, h), Tail(entries))

\* some Hypothesis(...) of the list fails pydantic's range validation
InvalidHypothesis(hs) ==
    \E i \in 1..Len(hs) :
        \/ ~InUnit(hs[i].prior_probability)
        \/ \E d \in Dimensions : ~InUnit(hs[i].scores[d])

\* _generate_hypotheses after its delegation returned `resp`, then abduce up
\* to the evaluation delegation
GenerationReturn(resp) ==
    /\ pc = "generation"
    /\ CanResume("generation")
    /\ LET data == ParseJson(resp)
           built == BuildHypotheses(<<>>, Get(data.map, "hypotheses", <<>>))
       IN  IF ~data.isdict
           THEN /\ Raise("AttributeError")
                /\ inflight' = Returned("generation")
                /\ UNCHANGED <<hypotheses, reasoning_trace, calls>>
           ELSE IF InvalidHypothesis(built)
           THEN /\ Raise("ValidationError")
                /\ inflight' = Returned("generation")
                /\ UNCHANGED <<hypotheses, reasoning_trace, calls>>
           ELSE /\ hypotheses' = built
                /\ reasoning_trace' = Append(reasoning_trace, "generation")
                /\ Delegate("generation", "evaluation")
    /\ UNCHANGED <<agent, entry, observation, use_council_arg, obs, critic, oracle_named,
                   council_eval, result, mcp, fn, other>>

\* ------------------------------------------------------------------------
\* abduce: phase 3a, and the start of the council
\* ------------------------------------------------------------------------
\* e["hypothesis_id"] raises KeyError for some entry
MissingHypothesisId(evaluations) ==
    \E i \in 1..Len(evaluations) : "hypothesis_id" \notin DOMAIN evaluations[i]

\* eval_map = {e["hypothesis_id"]: e for e in evaluations}: the keys
EvalKeys(evaluations) == {evaluations[i].hypothesis_id : i \in 1..Len(evaluations)}

\* eval_map[id]: a later entry for the same id replaces an earlier one
EvalEntry(evaluations, id) ==
    LET last == CHOOSE i \in 1..Len(evaluations) :
                    /\ evaluations[i].hypothesis_id = id
                    /\ \A j \in (i + 1)..Len(evaluations) : evaluations[j].hypothesis_id # id
    IN  evaluations[last]

\* mutant: the list returned holds the hypotheses that were evaluated
ApplyEvaluationsMatchedOnly(hs, evaluations) ==
    LET updated == [i \in 1..Len(hs) |->
                       IF hs[i].id \in EvalKeys(evaluations)
                       THEN [hs[i] EXCEPT !.scores =
                                ScoresFrom(Get(EvalEntry(evaluations, hs[i].id),
                                               "scores", EmptyMap))]
                       ELSE hs[i]]
    IN  SelectSeq(updated, LAMBDA h : h.id \in EvalKeys(evaluations))

\* the loop `for h in hypotheses` of _evaluate_hypotheses: the scores of a
\* hypothesis whose id is in eval_map are replaced, the others are kept
ApplyEvaluations(hs, evaluations) ==
    [i \in 1..Len(hs) |->
        IF hs[i].id \in EvalKeys(evaluations)
        THEN [hs[i] EXCEPT !.scores =
                 ScoresFrom(Get(EvalEntry(evaluations, hs[i].id), "scores", EmptyMap))]
        ELSE hs[i]]

\* mutant: the per-call use_council argument is ignored
ShouldUseCouncilAgentOnly == use_council

\* should_use_council = use_council if use_council is not None else self.use_council
ShouldUseCouncil ==
    IF use_council_arg.given THEN use_council_arg.value ELSE use_council

\* _evaluate_hypotheses after its delegation returned `resp`, then abduce up
\* to its next await: the gather of _run_council, which schedules one
\* _run_critic task per critic, or else the selection delegation
EvaluationReturn(resp) ==
    /\ pc = "evaluation"
    /\ CanResume("evaluation")
    /\ LET data == ParseJson(resp)
           evaluations == Get(data.map, "evaluations", <<>>)
       IN  IF ~data.isdict
           THEN /\ Raise("AttributeError")
                /\ inflight' = Returned("evaluation")
                /\ UNCHANGED <<hypotheses, reasoning_trace, calls, critic>>
           ELSE IF MissingHypothesisId(evaluations)
           THEN /\ Raise("KeyError")
                /\ inflight' = Returned("evaluation")
                /\ UNCHANGED <<hypotheses, reasoning_trace, calls, critic>>
           ELSE IF InvalidHypothesis(ApplyEvaluations(hypotheses, evaluations))
           THEN /\ Raise("ValidationError")
                /\ inflight' = Returned("evaluation")
                /\ UNCHANGED <<hypotheses, reasoning_trace, calls, critic>>
           ELSE /\ hypotheses' = ApplyEvaluations(hypotheses, evaluations)
                /\ reasoning_trace' = Append(reasoning_trace, "evaluation")
                /\ IF ShouldUseCouncil
                   THEN /\ pc' = "council"
                        /\ critic' = [c \in Critics |-> [st |-> "ready", value |-> <<>>]]
                        /\ inflight' = Returned("evaluation")
                        /\ UNCHANGED <<calls, error>>
                   ELSE /\ Delegate("evaluation", "selection")
                        /\ UNCHANGED critic
    /\ UNCHANGED <<agent, entry, observation, use_council_arg, obs, oracle_named,
                   council_eval, result, mcp, fn, other>>

\* ------------------------------------------------------------------------
\* Council of Critics
\* ------------------------------------------------------------------------
\* position of critic c in the roster
RosterIndex(c) == CHOOSE i \in 1..Len(critics) : critics[i] = c

\* _run_critic(c) up to its await: the event loop runs the tasks that gather
\* created in the order it created them, each until it suspends
CriticStart(c) ==
    /\ pc = "council"
    /\ critic[c].st = "ready"
    /\ \A j \in 1..(RosterIndex(c) - 1) : critic[critics[j]].st # "ready"
    /\ ~Blocked
    /\ IF CallLlm = "raise"
       THEN /\ critic' = [critic EXCEPT ![c] = [st |-> "failed", value |-> <<[exception |-> "RuntimeError"]>>]]
            /\ UNCHANGED <<inflight, calls>>
       ELSE /\ critic' = [critic EXCEPT ![c] = [st |-> "inflight", value |-> <<>>]]
            /\ inflight' = inflight \cup {[tag |-> c, how |-> CallLlm]}
            /\ calls' = Append(calls, c)
    /\ UNCHANGED <<agent, entry, pc, observation, use_council_arg, obs, hypotheses,
                   reasoning_trace, oracle_named, council_eval, result, error,
                   mcp, fn, other>>

\* the CriticEvaluation _run_critic builds from the parsed answer; the class
\* has no recommended_hypothesis field and none is passed
CriticEvaluationOf(c, data) ==
    [perspective |-> c, evaluation |-> Get(data, "evaluation", "")]

\* _run_critic(c) after its delegation returned `resp`: the task ends with a
\* CriticEvaluation, or with the AttributeError of data.get on a non-dict
CriticReturn(c, resp) ==
    /\ pc = "council"
    /\ critic[c].st = "inflight"
    /\ CanResume(c)
    /\ LET data == ParseJson(resp)
       IN  IF ~data.isdict
           THEN /\ critic' = [critic EXCEPT ![c] =
                       [st |-> "failed", value |-> <<[exception |-> "AttributeError"]>>]]
                /\ UNCHANGED oracle_named
           ELSE /\ critic' = [critic EXCEPT ![c] =
                       [st |-> "done", value |-> <<CriticEvaluationOf(c, data.map)>>]]
                /\ oracle_named' = [oracle_named EXCEPT ![c] =
                       Get(data.map, "recommended_hypothesis", "None")]
    /\ inflight' = Returned(c)
    /\ UNCHANGED <<agent, entry, pc, observation, use_council_arg, obs, hypotheses,
                   reasoning_trace, calls, council_eval, result, error, mcp, fn, other>>

\* the delegation of critic c raises: its task ends with that exception
CriticRaise(c) ==
    /\ pc = "council"
    /\ critic[c].st = "inflight"
    /\ CanResume(c)
    /\ critic' = [critic EXCEPT ![c] = [st |-> "failed", value |-> <<[exception |-> "OracleError"]>>]]
    /\ inflight' = Returned(c)
    /\ UNCHANGED <<agent, entry, pc, observation, use_council_arg, obs, hypotheses,
                   reasoning_trace, calls, oracle_named, council_eval, result, error,
                   mcp, fn, other>>

\* mutant: gather without return_exceptions, over at the first exception
GatherFirstException(tasks) ==
    \/ \A c \in Critics : tasks[c].st \in {"done", "failed"}
    \/ \E c \in Critics : tasks[c].st = "failed"

\* mutant: the await is over as soon as one task has ended
GatherFirstCompleted(tasks) == \E c \in Critics : tasks[c].st \in {"done", "failed"}

\* mutant: the await is over only when every task has ended with a value
GatherAllSucceeded(tasks) == \A c \in Critics : tasks[c].st = "done"

\* await asyncio.gather(*tasks, return_exceptions=True) is over: every task
\* has ended, with a value or with an exception
GatherDone(tasks) == \A c \in Critics : tasks[c].st \in {"done", "failed"}

RECURSIVE ValidEvals(_, _)
\* valid_evals = [e for e in evaluations if isinstance(e, CriticEvaluation)],
\* evaluations being in the order of the roster, from position i on
ValidEvals(tasks, i) ==
    IF i > Len(critics) THEN <<>>
    ELSE IF tasks[critics[i]].st = "done"
         THEN tasks[critics[i]].value \o ValidEvals(tasks, i + 1)
         ELSE ValidEvals(tasks, i + 1)

\* hasattr(e, "recommended_hypothesis") and e.recommended_hypothesis, as a
\* name: "None" when the evaluation casts no vote
VoteOf(e) ==
    IF "recommended_hypothesis" \in DOMAIN e /\ e.recommended_hypothesis \notin {"None", ""}
    THEN e.recommended_hypothesis
    ELSE "None"

\* the tally and max(recommendations.keys(), key=...) of _run_council over
\* the votes in order: the name with the most votes, the first one counted
\* among equals, None without a vote
PluralityFirstSeen(votes) ==
    LET cast == {i \in 1..Len(votes) : votes[i] # "None"}
        count(k) == Cardinality({i \in cast : votes[i] = k})
        first(k) == CHOOSE i \in cast : votes[i] = k /\ \A j \in cast : votes[j] = k => i <= j
    IN  IF cast = {} THEN "None"
        ELSE votes[CHOOSE i \in cast :
                      /\ first(votes[i]) = i
                      /\ \A j \in cast : count(votes[j]) <= count(votes[i])
                      /\ \A j \in cast : count(votes[j]) = count(votes[i])
                                            => i <= first(votes[j])]

\* recommended, as _run_council computes it from valid_evals
Recommended(valid_evals) ==
    PluralityFirstSeen([i \in 1..Len(valid_evals) |-> VoteOf(valid_evals[i])])

\* _run_council after its gather, then abduce up to the selection delegation
CouncilJoin ==
    /\ pc = "council"
    /\ GatherDone(critic)
    /\ ~Blocked
    /\ LET valid_evals == ValidEvals(critic, 1)
       IN  council_eval' = <<[evaluations |-> valid_evals,
                              recommended_hypothesis |-> Recommended(valid_evals)]>>
    /\ reasoning_trace' = Append(reasoning_trace, "council")
    /\ Delegate("council", "selection")
    /\ UNCHANGED <<agent, entry, observation, use_council_arg, obs, hypotheses, critic,
                   oracle_named, result, mcp, fn, other>>

\* ------------------------------------------------------------------------
\* abduce: phase 3c and the result
\* ------------------------------------------------------------------------
\* mutant: the council's recommendation, when there is a council
\* evaluation, replaces the hypothesis the selection answer names
SelectionOfCouncil(data) ==
    [selected |-> IF council_eval # <<>> THEN council_eval[1].recommended_hypothesis
                  ELSE Get(data, "selected_hypothesis", "None"),
     rationale |-> Get(data, "selection_rationale", "None"),
     confidence |-> Get(data, "confidence", DefaultScore),
     actions |-> Get(data, "recommended_actions", <<>>),
     alternative |-> Get(data, "alternative_if_wrong", "None")]

\* the dict _select_best returns
SelectionOf(data) ==
    [selected |-> Get(data, "selected_hypothesis", "None"),
     rationale |-> Get(data, "selection_rationale", "None"),
     confidence |-> Get(data, "confidence", DefaultScore),
     actions |-> Get(data, "recommended_actions", <<>>),
     alternative |-> Get(data, "alternative_if_wrong", "None")]

\* _select_best after its delegation returned `resp`, then abduce to its end
SelectionReturn(resp) ==
    /\ pc = "selection"
    /\ CanResume("selection")
    /\ inflight' = Returned("selection")
    /\ LET data == ParseJson(resp)
           selection == SelectionOf(data.map)
       IN  IF ~data.isdict
           THEN /\ Raise("AttributeError")
                /\ UNCHANGED <<reasoning_trace, result>>
           ELSE IF ~InUnit(selection.confidence)
           THEN /\ Raise("ValidationError")
                /\ reasoning_trace' = Append(reasoning_trace, "selection")
                /\ UNCHANGED result
           ELSE /\ pc' = "done"
                /\ reasoning_trace' = Append(reasoning_trace, "selection")
                /\ result' = <<[observation |-> obs[1],
                                hypotheses |-> hypotheses,
                                selected_hypothesis |-> selection.selected,
                                selection_rationale |-> selection.rationale,
                                council_evaluation |-> council_eval,
                                reasoning_trace |-> reasoning_trace',
                                recommended_actions |-> selection.actions,
                                confidence |-> selection.confidence,
                                metadata |-> [num_hypotheses |-> Len(hypotheses),
                                              used_council |-> ShouldUseCouncil]]>>
                /\ UNCHANGED error
    /\ UNCHANGED <<agent, entry, observation, use_council_arg, obs, hypotheses, calls,
                   critic, oracle_named, council_eval, mcp, fn, other>>

\* mutant: the failed delegation is issued again instead of propagating
OracleRaiseRetry ==
    /\ pc \in {"observation", "generation", "evaluation", "selection", "single_shot"}
    /\ CanResume(pc)
    /\ error' = "OracleError"
    /\ calls' = Append(calls, pc)
    /\ UNCHANGED <<agent, entry, pc, observation, use_council_arg, obs, hypotheses,
                   reasoning_trace, inflight, critic, oracle_named, council_eval,
                   result, mcp, fn, other>>

\* the delegation a sequential phase (or single_shot) awaits raises: the
\* exception propagates out of the phase executor and out of the run
OracleRaise ==
    /\ pc \in {"observation", "generation", "evaluation", "selection", "single_shot"}
    /\ CanResume(pc)
    /\ Raise("OracleError")
    /\ inflight' = Returned(pc)
    /\ UNCHANGED <<agent, entry, observation, use_council_arg, obs, hypotheses,
                   reasoning_trace, calls, critic, oracle_named, council_eval,
                   result, mcp, fn, other>>

\* ------------------------------------------------------------------------
\* single_shot
\* ------------------------------------------------------------------------
\* mutant: single_shot enters the phase pipeline instead of its one request
SingleShotStartPipeline ==
    /\ pc = "idle"
    /\ entry' = "single_shot"
    /\ observation' = TextArg
    /\ Delegate("none", "observation")
    /\ UNCHANGED <<agent, use_council_arg, obs, hypotheses, reasoning_trace, critic,
                   oracle_named, council_eval, result, mcp, fn, other>>

\* single_shot(observation, context) up to its await
SingleShotStart ==
    /\ pc = "idle"
    /\ entry' = "single_shot"
    /\ observation' = TextArg
    /\ Delegate("none", "single_shot")
    /\ UNCHANGED <<agent, use_council_arg, obs, hypotheses, reasoning_trace, critic,
                   oracle_named, council_eval, result, mcp, fn, other>>

\* HypothesisScores(...) as single_shot builds it: five dimensions from
\* scores_data, analogy and fertility left at the field default
SingleShotScores(scores_data) ==
    [d \in Dimensions |->
        IF d \in {"analogy", "fertility"} THEN DefaultScore
        ELSE Get(scores_data, d, DefaultScore)]

RECURSIVE BuildSingleShot(_, _)
\* the loop of single_shot over data.get("hypotheses", [])
BuildSingleShot(built, entries) ==
    IF entries = <<>> THEN built
    ELSE LET h_data == Head(entries)
             h == [id |-> Get(h_data, "id", DefaultId(Len(built) + 1)),
                   prior_probability |-> Get(h_data, "prior_probability", DefaultScore),
                   scores |-> SingleShotScores(Get(h_data, "scores", EmptyMap))]
         IN  BuildSingleShot(Append(built, h), Tail(entries))

\* mutant: a missing confidence defaults to 0.0
SingleShotSelectionZero(data) ==
    LET selection == Get(data, "selection", EmptyMap)
    IN  [selected |-> Get(selection, "best_hypothesis", "None"),
         rationale |-> Get(selection, "rationale", "None"),
         actions |-> Get(selection, "recommended_actions", <<>>),
         confidence |-> Get(selection, "confidence", ScoreMin)]

\* selection = data.get("selection", {}) and the fields single_shot reads
\* from it for the result
SingleShotSelection(data) ==
    LET selection == Get(data, "selection", EmptyMap)
    IN  [selected |-> Get(selection, "best_hypothesis", "None"),
         rationale |-> Get(selection, "rationale", "None"),
         actions |-> Get(selection, "recommended_actions", <<>>),
         confidence |-> Get(selection, "confidence", DefaultScore)]

\* single_shot after its delegation returned `resp`, to its end
SingleShotReturn(resp) ==
    /\ pc = "single_shot"
    /\ CanResume("single_shot")
    /\ inflight' = Returned("single_shot")
    /\ LET data == ParseJson(resp)
           obs_data == Get(data.map, "observation_analysis", EmptyMap)
           o == [fact |-> Get(obs_data, "fact", observation.fact),
                 surprise_level |-> "surprising",
                 surprise_score |-> Get(obs_data, "surprise_score", DefaultScore)]
           built == BuildSingleShot(<<>>, Get(data.map, "hypotheses", <<>>))
           selection == SingleShotSelection(data.map)
       IN  IF ~data.isdict
           THEN /\ Raise("AttributeError")
                /\ UNCHANGED <<obs, hypotheses, result>>
           ELSE IF ~InUnit(o.surprise_score)
           THEN /\ Raise("ValidationError")
                /\ UNCHANGED <<obs, hypotheses, result>>
           ELSE IF InvalidHypothesis(built)
           THEN /\ Raise("ValidationError")
                /\ obs' = <<o>>
                /\ UNCHANGED <<hypotheses, result>>
           ELSE IF ~InUnit(selection.confidence)
           THEN /\ Raise("ValidationError")
                /\ obs' = <<o>>
                /\ hypotheses' = built
                /\ UNCHANGED result
           ELSE /\ pc' = "done"
                /\ obs' = <<o>>
                /\ hypotheses' = built
                /\ result' = <<[observation |-> o,
                                hypotheses |-> built,
                                selected_hypothesis |-> selection.selected,
                                selection_rationale |-> selection.rationale,
                                council_evaluation |-> <<>>,
                                reasoning_trace |-> <<>>,
                                recommended_actions |-> selection.actions,
                                confidence |-> selection.confidence,
                                metadata |-> [mode |-> "single_shot"]]>>
                /\ UNCHANGED error
    /\ UNCHANGED <<agent, entry, observation, use_council_arg, reasoning_trace, calls,
                   critic, oracle_named, council_eval, mcp, fn, other>>

\* ------------------------------------------------------------------------
\* MCP tools that take a hypothesis count
\* ------------------------------------------------------------------------
\* format_error_response(..., code=...)
ErrorResponse(code) == [type |-> "error", code |-> code]

\* what the anomaly_json argument is to json.loads
AnomalyJsonKinds == {"invalid", "nonobject", "object"}

\* peircean_generate_hypotheses(anomaly_json, num_hypotheses)
McpGenerateHypotheses(anomaly_json, num_hypotheses) ==
    /\ mcp_request = <<>>
    /\ mcp_request' = <<[tool |-> "peircean_generate_hypotheses",
                         num_hypotheses |-> num_hypotheses,
                         observation_empty |-> FALSE]>>
    /\ mcp_response' =
         IF num_hypotheses < MinCount \/ num_hypotheses > MaxCount
         THEN <<ErrorResponse("invalid_value")>>
         ELSE IF anomaly_json = "invalid"
         THEN <<ErrorResponse("invalid_json")>>
         ELSE IF anomaly_json = "nonobject"
         THEN <<[type |-> "exception", code |-> "None"]>>
         ELSE <<[type |-> "prompt", phase |-> "2",
                 next_tool |-> "peircean_evaluate_via_ibe"]>>
    /\ UNCHANGED <<agent, run, fn, other>>

\* peircean_abduce_single_shot(observation, context, domain, num_hypotheses);
\* `empty` is `not observation or not observation.strip()`
McpAbduceSingleShot(empty, num_hypotheses) ==
    /\ mcp_request = <<>>
    /\ mcp_request' = <<[tool |-> "peircean_abduce_single_shot",
                         num_hypotheses |-> num_hypotheses,
                         observation_empty |-> empty]>>
    /\ mcp_response' =
         IF empty
         THEN <<ErrorResponse("validation_error")>>
         ELSE IF num_hypotheses < MinCount \/ num_hypotheses > MaxCount
         THEN <<ErrorResponse("invalid_value")>>
         ELSE <<[type |-> "prompt", phase |-> "single_shot", next_tool |-> "None"]>>
    /\ UNCHANGED <<agent, run, fn, other>>

\* ------------------------------------------------------------------------
\* Two abduce coroutines of one agent on one event loop
\* ------------------------------------------------------------------------
\* mutant: the list of hypotheses is kept in the agent, not in the coroutine
SwitchSharingHypotheses ==
    /\ other # Locals
    /\ entry' = other.entry
    /\ pc' = other.pc
    /\ observation' = other.observation
    /\ use_council_arg' = other.use_council_arg
    /\ obs' = other.obs
    /\ hypotheses' = hypotheses
    /\ reasoning_trace' = other.reasoning_trace
    /\ calls' = other.calls
    /\ inflight' = other.inflight
    /\ critic' = other.critic
    /\ oracle_named' = other.oracle_named
    /\ council_eval' = other.council_eval
    /\ result' = other.result
    /\ error' = other.error
    /\ other' = Locals
    /\ UNCHANGED <<agent, mcp, fn>>

\* The event loop turns from the abduce coroutine that was running, now
\* suspended at an await (or not started, or over), to the other one.  All
\* that abduce and the phase executors work on are their parameters and
\* local variables (obs, hypotheses, evaluated, reasoning_trace,
\* council_eval, selection): they go with the coroutine.  The attributes of
\* self are what the two have in common.
Switch ==
    /\ other # Locals
    /\ entry' = other.entry
    /\ pc' = other.pc
    /\ observation' = other.observation
    /\ use_council_arg' = other.use_council_arg
    /\ obs' = other.obs
    /\ hypotheses' = other.hypotheses
    /\ reasoning_trace' = other.reasoning_trace
    /\ calls' = other.calls
    /\ inflight' = other.inflight
    /\ critic' = other.critic
    /\ oracle_named' = other.oracle_named
    /\ council_eval' = other.council_eval
    /\ result' = other.result
    /\ error' = other.error
    /\ other' = Locals
    /\ UNCHANGED <<agent, mcp, fn>>

\* an oracle that answers by the observation named in the prompt: what it
\* answers to the request of `phase` about observation o
OracleFor(o, phase) ==
    IF o = TextArg
    THEN CASE phase = "observation" ->
                Obj([surprise_level |-> "high", surprise_score |-> 8])
           [] phase = "generation" -> Obj([hypotheses |-> <<[id |-> "H1"]>>])
           [] phase = "evaluation" ->
                Obj([evaluations |-> <<[hypothesis_id |-> "H1",
                                        scores |-> [explanatory_power |-> 7]]>>])
           [] OTHER ->
                Obj([selected_hypothesis |-> "H1", confidence |-> 8,
                     recommended_actions |-> <<"a1">>])
    ELSE CASE phase = "observation" -> Obj(EmptyMap)
           [] phase = "generation" -> Obj([hypotheses |-> <<[id |-> "H1"], EmptyMap>>])
           [] phase = "evaluation" ->
                Obj([evaluations |-> <<[hypothesis_id |-> "H2",
                                        scores |-> [parsimony |-> 2, fertility |-> 9]],
                                       [hypothesis_id |-> "H3"]>>])
           [] OTHER -> Obj([selected_hypothesis |-> "H2"])

\* ------------------------------------------------------------------------
\* HypothesisScores.composite
\* ------------------------------------------------------------------------
\* Weights are in hundredths (0.15 is 15, 1.0 is 100), so that a composite
\* is in thousandths (2.0 is 2000).  The weights argument is <<>> for None
\* and <<mapping>> for a dict.

\* default_weights
default_weights ==
    [explanatory_scope |-> 15, explanatory_power |-> 25, parsimony |-> 20,
     testability |-> 15, consilience |-> 10, analogy |-> 5, fertility |-> 10]

\* the return expression of composite: w.get(dim, 0) * self.dim, summed over
\* the seven dimensions
WeightedSum(w, scores) ==
    Get(w, "explanatory_scope", 0) * scores["explanatory_scope"]
    + Get(w, "explanatory_power", 0) * scores["explanatory_power"]
    + Get(w, "parsimony", 0) * scores["parsimony"]
    + Get(w, "testability", 0) * scores["testability"]
    + Get(w, "consilience", 0) * scores["consilience"]
    + Get(w, "analogy", 0) * scores["analogy"]
    + Get(w, "fertility", 0) * scores["fertility"]

\* w = weights or default_weights: None and the empty dict are both falsy
WeightsOrDefault(weights) ==
    IF weights = <<>> \/ weights[1] = EmptyMap THEN default_weights ELSE weights[1]

\* HypothesisScores.composite(weights)
Composite(scores, weights) == WeightedSum(WeightsOrDefault(weights), scores)

\* score values of a HypothesisScores: 0.0, 0.5 and 1.0
ScoreValues == {ScoreMin, DefaultScore, ScoreMax}

\* weights arguments: None, the empty dict, a dict naming no dimension,
\* partial dicts (the one of test_hypothesis_scores_custom_weights, and two
\* weights of 1.0), and total dicts
WeightArgs ==
    {<<>>, <<EmptyMap>>, <<[note |-> 100]>>,
     <<[explanatory_power |-> 100, parsimony |-> 0]>>,
     <<[explanatory_scope |-> 100, explanatory_power |-> 100]>>,
     <<default_weights>>,
     <<[d \in Dimensions |-> 100]>>}

\* scores.composite(weights) is about to be called
CompositeCalls ==
    {[name |-> "composite", scores |-> s, weights |-> w, out |-> <<>>] :
        s \in [Dimensions -> ScoreValues], w \in WeightArgs}

\* the call of composite returns
CompositeReturn ==
    /\ fn.name = "composite"
    /\ fn.out = <<>>
    /\ fn' = [fn EXCEPT !.out = <<Composite(fn.scores, fn.weights)>>]
    /\ UNCHANGED <<agent, run, mcp, other>>

\* ------------------------------------------------------------------------
\* AbductionAgent._parse_json on the text of an oracle answer
\* ------------------------------------------------------------------------
\* A text is a sequence of characters.  The characters of the model are the
\* backtick, the newline, the space, the braces, "1" (a digit) and "k",
\* which abbreviates the text of one object member, "k": 1.

\* what str.strip() removes and json.loads skips
Whitespace == {" ", "\n"}

RECURSIVE LStrip(_)
\* str.lstrip()
LStrip(s) == IF s # <<>> /\ Head(s) \in Whitespace THEN LStrip(Tail(s)) ELSE s

RECURSIVE RStrip(_)
\* str.rstrip()
RStrip(s) ==
    IF s # <<>> /\ s[Len(s)] \in Whitespace THEN RStrip(SubSeq(s, 1, Len(s) - 1)) ELSE s

\* str.strip()
Strip(s) == RStrip(LStrip(s))

\* the backtick character
Tick == "tick"

\* the three backticks of a fence
Fence == <<Tick, Tick, Tick>>

\* s.startswith(p)
StartsWith(s, p) == Len(s) >= Len(p) /\ SubSeq(s, 1, Len(p)) = p

\* s.endswith(p)
EndsWith(s, p) == Len(s) >= Len(p) /\ SubSeq(s, Len(s) - Len(p) + 1, Len(s)) = p

\* s.find(c): the 0-based index of the first c in s, -1 without one
Find(s, c) ==
    LET at == {i \in 1..Len(s) : s[i] = c}
    IN  IF at = {} THEN -1
        ELSE (CHOOSE i \in at : \A j \in at : i <= j) - 1

\* s[n:] for 0 <= n
From(s, n) == SubSeq(s, n + 1, Len(s))

\* mutant: the three backticks are cut off instead of the opening line
UnfenceBackticksOnly(response) ==
    LET text == Strip(response)
    IN  IF StartsWith(text, Fence)
        THEN LET t1 == From(text, 3)
                 t2 == IF EndsWith(t1, Fence) THEN SubSeq(t1, 1, Len(t1) - 3) ELSE t1
             IN  Strip(t2)
        ELSE text

\* _parse_json up to json.loads: the text handed to the decoder
Unfence(response) ==
    LET text == Strip(response)
    IN  IF StartsWith(text, Fence)
        THEN LET first_newline == Find(text, "\n")
                 t1 == IF first_newline # -1 THEN From(text, first_newline + 1) ELSE text
                 t2 == IF EndsWith(t1, Fence) THEN SubSeq(t1, 1, Len(t1) - 3) ELSE t1
             IN  Strip(t2)
        ELSE text

\* json.loads(text) on the characters of the model: whitespace around the
\* value and inside the braces is skipped; digits are a number; braces
\* around nothing or around one member are an object; all else is a
\* JSONDecodeError
JsonLoads(text) ==
    LET s == Strip(text)
        inner == Strip(SubSeq(s, 2, Len(s) - 1))
    IN  IF s # <<>> /\ \A i \in 1..Len(s) : s[i] = "1" THEN NonObject
        ELSE IF Len(s) >= 2 /\ s[1] = "{" /\ s[Len(s)] = "}"
        THEN IF inner = <<>> THEN Obj(EmptyMap)
             ELSE IF inner = <<"k">> THEN Obj([k |-> 1])
             ELSE Invalid
        ELSE Invalid

\* mutant: json.loads outside a try block
ParseJsonTextNoCatch(response) ==
    LET loaded == JsonLoads(Unfence(response))
    IN  [raised |-> loaded.json = "invalid",
         isdict |-> loaded.json = "object",
         map |-> loaded.data]

\* _parse_json(response): what it returns, and whether it raised instead
ParseJsonText(response) ==
    LET parsed == ParseJson(JsonLoads(Unfence(response)))
    IN  [raised |-> FALSE, isdict |-> parsed.isdict, map |-> parsed.map]

\* the characters of the texts the parser is called with
TextAlphabet == {Tick, "\n", "{", "}", "k", "1"}

\* the texts: JSON objects, other JSON values and texts that are not JSON
Texts == UNION {[1..n -> TextAlphabet] : n \in 0..MaxText}

\* whitespace put around an answer
Blank == <<" ", "\n", " ">>

\* how an oracle presents a text: as it is or inside a code fence of three
\* backticks, the opening fence with or without a language tag, the closing
\* fence on a line of its own or not, all of it with or without whitespace
\* around
Wraps ==
    {[fenced |-> FALSE, tag |-> <<>>, close |-> <<>>, around |-> a] :
        a \in {<<>>, Blank}}
    \cup {[fenced |-> TRUE, tag |-> t, close |-> c, around |-> a] :
             t \in {<<>>, <<"j", "s", "o", "n">>}, c \in {<<>>, <<"\n">>},
             a \in {<<>>, Blank}}

\* the oracle's answer: text t presented as w
Wrapped(t, w) ==
    w.around
    \o (IF w.fenced THEN Fence \o w.tag \o <<"\n">> \o t \o w.close \o Fence ELSE t)
    \o w.around

\* self._parse_json(response) is about to be called on text t presented as w
ParseJsonCall(t, w) == [name |-> "_parse_json", text |-> t, wrap |-> w, out |-> <<>>]

\* the call of _parse_json returns
ParseJsonReturn ==
    /\ fn.name = "_parse_json"
    /\ fn.out = <<>>
    /\ fn' = [fn EXCEPT !.out = <<ParseJsonText(Wrapped(fn.text, fn.wrap))>>]
    /\ UNCHANGED <<agent, run, mcp, other>>

\* ------------------------------------------------------------------------
\* Specifications
\* ------------------------------------------------------------------------
\* what a critic's oracle answers in Spec
BasicCriticResponses == {Obj(EmptyMap)}

\* every entry point of the agent, every answer of the oracle in the
\* sequential phases
Next ==
    \/ \E o \in ObservationArgs, uc \in UseCouncilArgs : AbduceStart(o, uc)
    \/ \E resp \in ObservationResponses : ObservationReturn(resp)
    \/ \E resp \in GenerationResponses : GenerationReturn(resp)
    \/ \E resp \in EvaluationResponses : EvaluationReturn(resp)
    \/ \E c \in Critics : CriticStart(c)
    \/ \E c \in Critics, resp \in BasicCriticResponses : CriticReturn(c, resp)
    \/ \E c \in Critics : CriticRaise(c)
    \/ CouncilJoin
    \/ \E resp \in SelectionResponses : SelectionReturn(resp)
    \/ OracleRaise
    \/ SingleShotStart
    \/ \E resp \in SingleShotResponses : SingleShotReturn(resp)

Spec == Init /\ [][Next]_vars

\* the delegation a sequential phase of abduce awaits returns or raises
OracleCompletes ==
    \/ \E resp \in ObservationResponses : ObservationReturn(resp)
    \/ \E resp \in GenerationResponses : GenerationReturn(resp)
    \/ \E resp \in EvaluationResponses : EvaluationReturn(resp)
    \/ \E resp \in SelectionResponses : SelectionReturn(resp)
    \/ OracleRaise

\* the delegation of critic c returns or raises
CriticCompletes(c) ==
    \/ \E resp \in BasicCriticResponses : CriticReturn(c, resp)
    \/ CriticRaise(c)

\* Spec with an oracle every delegation to which eventually returns or
\* raises, and an event loop that runs every task that is ready: the tasks
\* gather created, and abduce once its gather is over
SpecOracleCompletes ==
    /\ Init
    /\ [][Next]_vars
    /\ WF_vars(OracleCompletes)
    /\ \A c \in Critics : WF_vars(CriticCompletes(c))
    /\ \A c \in Critics : WF_vars(CriticStart(c))
    /\ WF_vars(CouncilJoin)

\* abduce with one answer per sequential phase and every answer of the
\* critics' oracle
NextCouncil ==
    \/ \E o \in ObservationArgs, uc \in UseCouncilArgs : AbduceStart(o, uc)
    \/ ObservationReturn(Obj(EmptyMap))
    \/ GenerationReturn(Obj([hypotheses |-> <<[id |-> "H1"], EmptyMap>>]))
    \/ EvaluationReturn(Obj(EmptyMap))
    \/ \E c \in Critics : CriticStart(c)
    \/ \E c \in Critics, resp \in CriticResponses : CriticReturn(c, resp)
    \/ \E c \in Critics : CriticRaise(c)
    \/ CouncilJoin
    \/ SelectionReturn(Obj([selected_hypothesis |-> "H1", confidence |-> 8]))

\* an agent that has an oracle
InitCouncil ==
    /\ Init
    /\ llm_call_async \/ llm_call

SpecCouncil == InitCouncil /\ [][NextCouncil]_vars

\* an agent constructed with any hypothesis count
InitCount ==
    /\ llm_call_async = FALSE
    /\ llm_call = TRUE
    /\ use_council = FALSE
    /\ max_hypotheses \in Counts
    /\ NoRun
    /\ fn = NoCall

\* the entry points that take or use a hypothesis count
NextCount ==
    \/ \E o \in ObservationArgs : AbduceStart(o, [given |-> FALSE, value |-> FALSE])
    \/ \E resp \in ObservationResponses : ObservationReturn(resp)
    \/ \E resp \in GenerationResponses : GenerationReturn(resp)
    \/ \E resp \in EvaluationResponses : EvaluationReturn(resp)
    \/ \E resp \in SelectionResponses : SelectionReturn(resp)
    \/ SingleShotStart
    \/ \E resp \in SingleShotResponses : SingleShotReturn(resp)
    \/ \E a \in AnomalyJsonKinds, n \in Counts : McpGenerateHypotheses(a, n)
    \/ \E e \in BOOLEAN, n \in Counts : McpAbduceSingleShot(e, n)

SpecCount == InitCount /\ [][NextCount]_vars

\* abduce with an oracle none of whose answers is JSON
NextUnparseable ==
    \/ \E o \in ObservationArgs, uc \in UseCouncilArgs : AbduceStart(o, uc)
    \/ ObservationReturn(Invalid)
    \/ GenerationReturn(Invalid)
    \/ EvaluationReturn(Invalid)
    \/ \E c \in Critics : CriticStart(c)
    \/ \E c \in Critics : CriticReturn(c, Invalid)
    \/ CouncilJoin
    \/ SelectionReturn(Invalid)

SpecUnparseable == InitCouncil /\ [][NextUnparseable]_vars

\* an agent with a blocking oracle
InitTwoRuns ==
    /\ llm_call_async = FALSE
    /\ llm_call = TRUE
    /\ use_council \in BOOLEAN
    /\ max_hypotheses = DefaultCount
    /\ NoRun
    /\ fn = NoCall

\* two abduce coroutines of the agent, interleaved at their awaits, with an
\* oracle that answers by the observation and critics that answer {}
NextTwoRuns ==
    \/ \E o \in ObservationArgs, uc \in UseCouncilArgs : AbduceStart(o, uc)
    \/ ObservationReturn(OracleFor(observation, "observation"))
    \/ GenerationReturn(OracleFor(observation, "generation"))
    \/ EvaluationReturn(OracleFor(observation, "evaluation"))
    \/ \E c \in Critics : CriticStart(c)
    \/ \E c \in Critics : CriticReturn(c, Obj(EmptyMap))
    \/ CouncilJoin
    \/ SelectionReturn(OracleFor(observation, "selection"))
    \/ Switch

SpecTwoRuns == InitTwoRuns /\ [][NextTwoRuns]_vars

\* an agent on which no run is started
IdleAgent ==
    /\ llm_call_async = FALSE
    /\ llm_call = TRUE
    /\ use_council = FALSE
    /\ max_hypotheses = DefaultCount
    /\ NoRun

\* a HypothesisScores and a weights argument for composite
InitComposite ==
    /\ IdleAgent
    /\ fn \in CompositeCalls

NextComposite == CompositeReturn

SpecComposite == InitComposite /\ [][NextComposite]_vars

\* an oracle answer for the parser
InitParse ==
    /\ IdleAgent
    /\ \E t \in Texts, w \in Wraps : fn = ParseJsonCall(t, w)

NextParse == ParseJsonReturn

SpecParse == InitParse /\ [][NextParse]_vars

\* ------------------------------------------------------------------------
\* Properties
\* ------------------------------------------------------------------------
\* s is an initial segment of t
IsPrefix(s, t) == Len(s) <= Len(t) /\ \A i \in 1..Len(s) : s[i] = t[i]

\* the run is a council run: the per-call argument when given, otherwise
\* the agent's setting
CouncilInEffect ==
    \/ use_council_arg.given /\ use_council_arg.value
    \/ ~use_council_arg.given /\ use_council

\* C1: the trace of an abduce run is, at every moment, an initial segment of
\* observation, generation, evaluation, [council], selection, the council
\* step being there exactly when council mode is in effect for the run, and
\* the trace of a run that completed is that whole sequence (4 or 5 steps).
C1_TraceIsPhaseSequence ==
    LET expected == IF CouncilInEffect
                    THEN <<"observation", "generation", "evaluation", "council", "selection">>
                    ELSE <<"observation", "generation", "evaluation", "selection">>
    IN  entry = "abduce" =>
          /\ IsPrefix(reasoning_trace, expected)
          /\ pc = "done" =>
               /\ result # <<>>
               /\ result[1].reasoning_trace = expected
               /\ Len(result[1].reasoning_trace) = IF CouncilInEffect THEN 5 ELSE 4

\* a completed run whose per-call argument turned the council on for an
\* agent constructed without it
C1_Witness ==
    /\ entry = "abduce"
    /\ pc = "done"
    /\ use_council_arg.given /\ use_council_arg.value
    /\ ~use_council
    /\ Len(result[1].reasoning_trace) = 5

\* the delegations of the sequential phases, in the order they were issued
SequentialCalls == SelectSeq(calls, LAMBDA t : t \notin Critics)

\* C2: in an abduce run the sequential delegations are issued in phase order
\* without repetition: observation exactly once for a text and never for a
\* pre-built Observation (which is the result's observation), then
\* generation, evaluation, selection once each, and a sequential delegation
\* in flight is the last one issued, all earlier ones having returned.
C2_SequentialDelegations ==
    LET expected == IF observation.kind = "text"
                    THEN <<"observation", "generation", "evaluation", "selection">>
                    ELSE <<"generation", "evaluation", "selection">>
        issued == SequentialCalls
    IN  entry = "abduce" =>
          /\ IsPrefix(issued, expected)
          /\ \A c \in inflight :
                c.tag \notin Critics => issued # <<>> /\ c.tag = issued[Len(issued)]
          /\ pc = "done" =>
               /\ issued = expected
               /\ observation.kind = "object" =>
                     result[1].observation =
                        [fact |-> observation.fact,
                         surprise_level |-> observation.surprise_level,
                         surprise_score |-> observation.surprise_score]

\* a completed run on a pre-built Observation: three sequential delegations
C2_Witness ==
    /\ entry = "abduce"
    /\ pc = "done"
    /\ observation.kind = "object"
    /\ SequentialCalls = <<"generation", "evaluation", "selection">>
    /\ result[1].observation.fact = observation.fact

\* C3: when the delegation of a sequential phase raises, the run ends with
\* that error in that very step: the phase adds no trace step, no further
\* delegation is issued and no result exists; and a run that has failed
\* stays failed, issues nothing more and never gets a result.
C3_OracleErrorIsFatal ==
    [][/\ (pc \in {"observation", "generation", "evaluation", "selection"}
              /\ error' = "OracleError")
          => (/\ pc' = "failed"
              /\ calls' = calls
              /\ reasoning_trace' = reasoning_trace
              /\ result' = <<>>
              /\ inflight' = {})
       /\ pc = "failed"
          => (/\ pc' = "failed"
              /\ error' = error
              /\ calls' = calls
              /\ result' = <<>>)]_vars

\* the generation delegation raised: the run failed after two delegations
C3_Witness ==
    /\ entry = "abduce"
    /\ pc = "failed"
    /\ error = "OracleError"
    /\ calls = <<"observation", "generation">>
    /\ reasoning_trace = <<"observation">>
    /\ result = <<>>

\* the critics whose task ended with an exception
FailedCritics == {c \in Critics : critic[c].st = "failed"}

\* C4: once the council step is over every critic task has run to its end,
\* none was aborted because a sibling raised, the run has gone on to
\* selection, and the CouncilEvaluation holds exactly the evaluations of
\* the critics that did not raise, in roster order.
C4_CouncilIsolatesFailures ==
    council_eval # <<>> =>
      LET evals == council_eval[1].evaluations
          survivors == SelectSeq(critics, LAMBDA c : c \notin FailedCritics)
      IN  /\ \A c \in Critics : critic[c].st \in {"done", "failed"}
          /\ pc \in {"selection", "done"}
          /\ "selection" \in {calls[i] : i \in 1..Len(calls)}
          /\ Len(evals) = Len(critics) - Cardinality(FailedCritics)
          /\ [i \in 1..Len(evals) |-> evals[i].perspective] = survivors

\* exactly one critic raised and the run completed with four evaluations
C4_Witness ==
    /\ pc = "done"
    /\ FailedCritics = {"empiricist"}
    /\ Len(result[1].council_evaluation[1].evaluations) = 4

\* the hypotheses named by the answers of the critics that succeeded, in
\* roster order ("None" for an answer that names none)
NamedBySurvivors ==
    LET survivors == SelectSeq(critics, LAMBDA c : critic[c].st = "done")
    IN  [i \in 1..Len(survivors) |-> oracle_named[survivors[i]]]

\* C5: the council's recommended_hypothesis is the plurality winner among
\* the hypotheses the surviving critics' answers name, the first seen among
\* equals, and None only when no surviving critic names one.
C5_RecommendedIsPlurality ==
    council_eval # <<>> =>
      council_eval[1].recommended_hypothesis = PluralityFirstSeen(NamedBySurvivors)

\* C6: while the council step has a critic that has not issued its
\* delegation, issuing it is possible whatever its siblings' delegations
\* are doing, with a blocking oracle (run in the executor) and with an
\* awaitable one; and once the selection delegation of a council run has
\* been issued every critic has completed or failed.
C6_FanOutThenJoin ==
    /\ (pc = "council" /\ \E c \in Critics : critic[c].st = "ready")
          => ENABLED (\E c \in Critics : CriticStart(c))
    /\ (entry = "abduce" /\ CouncilInEffect
          /\ "selection" \in {calls[i] : i \in 1..Len(calls)})
          => \A c \in Critics : critic[c].st \in {"done", "failed"}

\* five critic delegations in flight at once through a blocking oracle
C6_Witness ==
    /\ pc = "council"
    /\ ~llm_call_async /\ llm_call
    /\ {c.tag : c \in inflight} = Critics

\* C7: outside the council step at most one delegation is in flight.
C7_OneInFlightOutsideCouncil ==
    pc # "council" => Cardinality(inflight) <= 1

\* the selection delegation alone in flight, after a council step in which
\* all five critic delegations were issued
C7_Witness ==
    /\ pc = "selection"
    /\ council_eval # <<>>
    /\ Len(calls) >= Len(critics) + 1
    /\ {c.tag : c \in inflight} = {"selection"}

\* C8: a hypothesis count outside 1..20 is rejected before any delegation
\* on every entry point that takes one: an agent holding such a count
\* issues no delegation, and an MCP tool called with such a count answers
\* an error, which is the invalid_value error (not the invalid_json one of
\* unparseable input) when the observation it was given is not empty.
C8_CountRejected ==
    /\ max_hypotheses \notin MinCount..MaxCount => calls = <<>>
    /\ (mcp_request # <<>> /\ mcp_request[1].num_hypotheses \notin MinCount..MaxCount)
          => /\ mcp_response[1].type = "error"
             /\ mcp_response[1].code # "invalid_json"
             /\ ~mcp_request[1].observation_empty
                   => mcp_response[1] = ErrorResponse("invalid_value")

\* C9: a single_shot run issues one delegation, the single_shot one, starts
\* no critic and has no council evaluation, whatever self.use_council is.
C9_SingleShotOneDelegation ==
    entry = "single_shot" =>
      /\ IsPrefix(calls, <<"single_shot">>)
      /\ pc \in {"single_shot", "done"} => calls = <<"single_shot">>
      /\ \A c \in Critics : critic[c] = NoTask
      /\ council_eval = <<>>
      /\ pc = "done" => result # <<>> /\ result[1].council_evaluation = <<>>

\* a completed single_shot run of an agent constructed with use_council
C9_Witness ==
    /\ entry = "single_shot"
    /\ pc = "done"
    /\ use_council
    /\ calls = <<"single_shot">>

\* the substructures single_shot looks for in the oracle's object
SingleShotKeys == {"observation_analysis", "hypotheses", "selection"}

\* C10: a single_shot step whose oracle answer is {} or an object with none
\* of the three substructures ends the run without an exception, with an
\* empty hypothesis list, no selected hypothesis and confidence 0.5.
C10_SingleShotEmptyAnswer ==
    [][\A resp \in SingleShotResponses :
          (/\ resp.json = "object"
           /\ DOMAIN resp.data \cap SingleShotKeys = {}
           /\ SingleShotReturn(resp))
          => (/\ pc' = "done"
              /\ error' = "None"
              /\ result' # <<>>
              /\ result'[1].hypotheses = <<>>
              /\ result'[1].selected_hypothesis = "None"
              /\ result'[1].confidence = DefaultScore)]_vars

\* a single_shot run that completed with nothing but defaults
C10_Witness ==
    /\ entry = "single_shot"
    /\ pc = "done"
    /\ result[1].hypotheses = <<>>
    /\ result[1].selected_hypothesis = "None"
    /\ result[1].confidence = DefaultScore
    /\ result[1].observation.fact = observation.fact

\* AbductionResult.best_hypothesis: the first hypothesis of the result whose
\* id is selected_hypothesis, as <<hypothesis>>; <<>> (None) when none is
\* selected or no id matches
BestHypothesis(r) ==
    IF r.selected_hypothesis \in {"None", ""} THEN <<>>
    ELSE LET matches == {i \in 1..Len(r.hypotheses) :
                            r.hypotheses[i].id = r.selected_hypothesis}
         IN  IF matches = {} THEN <<>>
             ELSE <<r.hypotheses[CHOOSE i \in matches : \A j \in matches : i <= j]>>

\* C11: in every result of abduce or single_shot, a selected_hypothesis that
\* is set is the id of a hypothesis of the result, so that best_hypothesis
\* returns a hypothesis.
C11_SelectedIsAHypothesis ==
    (result # <<>> /\ result[1].selected_hypothesis # "None")
       => /\ \E i \in 1..Len(result[1].hypotheses) :
                result[1].hypotheses[i].id = result[1].selected_hypothesis
          /\ BestHypothesis(result[1]) # <<>>

\* C12: a completed abduce run whose generation phase yielded no hypothesis
\* has a result without a selected hypothesis, whatever the selection
\* answer was, and no run fails in evaluation or selection for having no
\* hypothesis.
C12_NoHypothesisNoSelection ==
    (entry = "abduce" /\ pc = "done" /\ hypotheses = <<>>)
       => /\ result # <<>>
          /\ result[1].hypotheses = <<>>
          /\ result[1].selected_hypothesis = "None"

RECURSIVE SumOver(_, _)
\* the sum of f[x] over the finite set S
SumOver(S, f) ==
    IF S = {} THEN 0
    ELSE LET x == CHOOSE y \in S : TRUE
         IN  f[x] + SumOver(S \ {x}, f)

\* C13: composite called with a weights mapping, whichever dimensions it
\* names, returns the sum over the seven dimensions of the supplied weight
\* (0 for a dimension the mapping does not name) times the score, not
\* renormalised; called without weights it returns that sum for the default
\* weights.
C13_CompositeIsRawSum ==
    (fn.name = "composite" /\ fn.out # <<>>) =>
       LET supplied == IF fn.weights = <<>> THEN default_weights ELSE fn.weights[1]
           term == [d \in Dimensions |->
                       (IF d \in DOMAIN supplied THEN supplied[d] ELSE 0) * fn.scores[d]]
       IN  fn.out[1] = SumOver(Dimensions, term)

\* the call of _parse_json in the state has returned
Parsed == fn.name = "_parse_json" /\ fn.out # <<>>

\* C14: for a text that is a JSON object, the parser returns that object
\* whether the text is given as it is or inside a code fence, with or
\* without a language tag and with or without whitespace around: the same
\* mapping as for the bare text.
C14_FenceIsTransparent ==
    (Parsed /\ JsonLoads(fn.text).json = "object")
       => /\ fn.out[1] = ParseJsonText(fn.text)
          /\ fn.out[1] = [raised |-> FALSE, isdict |-> TRUE,
                          map |-> JsonLoads(fn.text).data]

\* a one-member object in a fence with a language tag and whitespace around,
\* parsed to that object
C14_Witness ==
    /\ Parsed
    /\ fn.text = <<"{", "k", "}">>
    /\ fn.wrap = [fenced |-> TRUE, tag |-> <<"j", "s", "o", "n">>,
                  close |-> <<"\n">>, around |-> Blank]
    /\ fn.out[1].map = [k |-> 1]

C16_NonObjectIsNoError ==
    [][/\ (\/ ObservationReturn(NonObject)
           \/ GenerationReturn(NonObject)
           \/ EvaluationReturn(NonObject)
           \/ SelectionReturn(NonObject)
           \/ SingleShotReturn(NonObject))
          => (pc' # "failed" /\ error' = "None")
       /\ \A c \in Critics :
             CriticReturn(c, NonObject) => critic'[c].st = "done"]_vars

\* oracle answers that are objects lacking expected keys, at the top level
\* or inside a hypothesis or evaluation entry
LackingFields ==
    {Obj(EmptyMap), Obj([note |-> "n"]),
     Obj([hypotheses |-> <<EmptyMap>>]),
     Obj([evaluations |-> <<[scores |-> EmptyMap]>>])}

\* C17: a step of any phase whose oracle answer is an object lacking
\* expected keys, at the top level or inside an entry, does not fail the
\* run, and a critic whose answer is such an object ends with an evaluation.
C17_MissingFieldIsNoError ==
    [][\A resp \in LackingFields :
          /\ (\/ ObservationReturn(resp)
              \/ GenerationReturn(resp)
              \/ EvaluationReturn(resp)
              \/ SelectionReturn(resp)
              \/ SingleShotReturn(resp))
             => (pc' # "failed" /\ error' = "None")
          /\ \A c \in Critics :
                CriticReturn(c, resp) => critic'[c].st = "done"]_vars

\* C18: an abduce run all of whose oracle answers are unparseable never
\* fails and is never stuck before its end, and at its end it has returned a
\* complete result: the observation, no hypothesis, no selected hypothesis,
\* no recommended action, confidence 0.5 and the trace of the phases run.
C18_UnparseableRunCompletes ==
    /\ pc # "failed"
    /\ error = "None"
    /\ pc # "done" => ENABLED NextUnparseable
    /\ pc = "done" =>
          /\ result # <<>>
          /\ result[1].observation = obs[1]
          /\ result[1].hypotheses = <<>>
          /\ result[1].selected_hypothesis = "None"
          /\ result[1].selection_rationale = "None"
          /\ result[1].recommended_actions = <<>>
          /\ result[1].confidence = DefaultScore
          /\ result[1].reasoning_trace = reasoning_trace
          /\ Len(calls) \in {3, 4, 8, 9}

\* a run with the council, nine unparseable answers, and its default result
C18_Witness ==
    /\ pc = "done"
    /\ calls = <<"observation", "generation", "evaluation">> \o critics \o <<"selection">>
    /\ result[1].hypotheses = <<>>
    /\ result[1].confidence = DefaultScore
    /\ result[1].council_evaluation[1].evaluations # <<>>

\* the ids of a list of hypotheses, in order
IdsOf(hs) == [i \in 1..Len(hs) |-> hs[i].id]

\* C19: an evaluation step that does not fail leaves the list of hypotheses
\* with its length, order and ids; a hypothesis for whose id the answer has
\* an entry gets that entry's score in every dimension the entry gives and
\* 0.5 in every other one, a hypothesis without an entry keeps its scores;
\* no later step of the run changes the list, and the result holds it.
C19_EvaluationOverwritesMatched ==
    [][/\ \A resp \in EvaluationResponses :
             (EvaluationReturn(resp) /\ pc' # "failed") =>
                LET evs == IF "evaluations" \in DOMAIN resp.data
                           THEN resp.data.evaluations ELSE <<>>
                    at(id) == {j \in 1..Len(evs) : evs[j].hypothesis_id = id}
                IN  /\ IdsOf(hypotheses') = IdsOf(hypotheses)
                    /\ \A i \in 1..Len(hypotheses) :
                          /\ hypotheses'[i].prior_probability = hypotheses[i].prior_probability
                          /\ at(hypotheses[i].id) = {}
                                => hypotheses'[i].scores = hypotheses[i].scores
                          /\ \A j \in at(hypotheses[i].id) : \A d \in Dimensions :
                                hypotheses'[i].scores[d] =
                                   IF "scores" \in DOMAIN evs[j] /\ d \in DOMAIN evs[j].scores
                                   THEN evs[j].scores[d] ELSE DefaultScore
       /\ (entry = "abduce" /\ pc \in {"council", "selection"})
             => /\ hypotheses' = hypotheses
                /\ pc' = "done" => result'[1].hypotheses = hypotheses]_vars

\* a completed run of two hypotheses, the second one evaluated and not
\* selected, the first one left with its default scores
C19_Witness ==
    /\ entry = "abduce"
    /\ pc = "done"
    /\ IdsOf(result[1].hypotheses) = <<"H1", "H2">>
    /\ result[1].hypotheses[1].scores = DefaultScores
    /\ result[1].hypotheses[2].scores =
          [DefaultScores EXCEPT !["parsimony"] = 2, !["fertility"] = 9]
    /\ result[1].selected_hypothesis = "H1"

\* C20: a run of an agent constructed without any oracle function fails
\* with the RuntimeError of _call_llm at its first delegation: no
\* delegation is ever issued or in flight, no critic task is started (so
\* that the council's gather has no such error to hold back), no phase
\* after the failure is run, and no result exists.
C20_NoOracleIsFatal ==
    (~llm_call_async /\ ~llm_call) =>
       /\ calls = <<>>
       /\ inflight = {}
       /\ result = <<>>
       /\ council_eval = <<>>
       /\ \A c \in Critics : critic[c] = NoTask
       /\ entry = "none" => (pc = "idle" /\ error = "None")
       /\ entry # "none" =>
             /\ pc = "failed"
             /\ error = "RuntimeError"
             /\ hypotheses = <<>>
             /\ IsPrefix(reasoning_trace, <<"observation">>)

\* abduce on a pre-built observation, failed at the generation delegation
\* of an agent without oracle
C20_Witness ==
    /\ ~llm_call_async
    /\ ~llm_call
    /\ entry = "abduce"
    /\ observation = ObjectArg
    /\ pc = "failed"
    /\ error = "RuntimeError"
    /\ reasoning_trace = <<"observation">>

\* C21: the hypotheses of every result have pairwise distinct ids, whether
\* an id was written by the oracle or is the positional default.
C21_IdsAreDistinct ==
    result # <<>> =>
       \A i, j \in 1..Len(result[1].hypotheses) :
          result[1].hypotheses[i].id = result[1].hypotheses[j].id => i = j

\* what a run on observation o has as its locals when it runs alone with
\* the oracle that answers by the observation: its Observation
AloneObs(o) ==
    IF o = TextArg
    THEN [fact |-> "T", surprise_level |-> "high", surprise_score |-> 8]
    ELSE [fact |-> "F", surprise_level |-> "expected", surprise_score |-> 9]

\* its hypotheses after generation
AloneGenerated(o) ==
    IF o = TextArg
    THEN <<[id |-> "H1", prior_probability |-> DefaultScore, scores |-> DefaultScores]>>
    ELSE <<[id |-> "H1", prior_probability |-> DefaultScore, scores |-> DefaultScores],
           [id |-> "H2", prior_probability |-> DefaultScore, scores |-> DefaultScores]>>

\* its hypotheses after evaluation
AloneEvaluated(o) ==
    IF o = TextArg
    THEN <<[id |-> "H1", prior_probability |-> DefaultScore,
            scores |-> [DefaultScores EXCEPT !["explanatory_power"] = 7]]>>
    ELSE <<[id |-> "H1", prior_probability |-> DefaultScore, scores |-> DefaultScores],
           [id |-> "H2", prior_probability |-> DefaultScore,
            scores |-> [DefaultScores EXCEPT !["parsimony"] = 2, !["fertility"] = 9]]>>

\* its trace when it is at pc, with or without council
AloneTrace(at, council) ==
    CASE at = "observation" -> <<>>
      [] at = "generation" -> <<"observation">>
      [] at = "evaluation" -> <<"observation", "generation">>
      [] at = "council" -> <<"observation", "generation", "evaluation">>
      [] at = "selection" ->
           <<"observation", "generation", "evaluation">>
           \o (IF council THEN <<"council">> ELSE <<>>)
      [] OTHER ->
           <<"observation", "generation", "evaluation">>
           \o (IF council THEN <<"council">> ELSE <<>>) \o <<"selection">>

\* the locals r are those of a coroutine that was not started, or those the
\* run of r.observation has when it runs alone
Own(r) ==
    IF r.entry = "none" THEN r = NotStarted
    ELSE LET o == r.observation
             council == IF r.use_council_arg.given THEN r.use_council_arg.value
                        ELSE use_council
         IN  /\ r.pc \in {"observation", "generation", "evaluation", "council",
                           "selection", "done"}
             /\ r.error = "None"
             /\ r.obs = IF r.pc = "observation" THEN <<>> ELSE <<AloneObs(o)>>
             /\ r.hypotheses =
                   IF r.pc \in {"observation", "generation"} THEN <<>>
                   ELSE IF r.pc = "evaluation" THEN AloneGenerated(o)
                   ELSE AloneEvaluated(o)
             /\ r.reasoning_trace = AloneTrace(r.pc, council)
             /\ r.pc = "council" => council
             /\ (r.pc \in {"selection", "done"} /\ council)
                   => r.council_eval =
                        <<[evaluations |-> [i \in 1..Len(critics) |->
                                              [perspective |-> critics[i],
                                               evaluation |-> ""]],
                           recommended_hypothesis |-> "None"]>>
             /\ r.pc # "done" => r.result = <<>>
             /\ r.pc = "done" =>
                   /\ r.result # <<>>
                   /\ r.result[1].observation = AloneObs(o)
                   /\ r.result[1].hypotheses = AloneEvaluated(o)
                   /\ r.result[1].reasoning_trace = AloneTrace("done", council)
                   /\ r.result[1].council_evaluation = r.council_eval
                   /\ r.result[1].selected_hypothesis
                         = (IF o = TextArg THEN "H1" ELSE "H2")
                   /\ r.result[1].confidence
                         = (IF o = TextArg THEN 8 ELSE DefaultScore)

\* C22: with two abduce runs of one agent interleaved at their awaits, the
\* observation, hypotheses (scores included), trace, council evaluation and
\* result of each run are at every moment those the run has when it runs
\* alone; a step of one run changes nothing of the other; and a critic's
\* step changes neither the hypotheses nor the observation the critics read.
C22_RunsShareNoState ==
    [][/\ Own(Locals)'
       /\ Own(other)'
       /\ Switch \/ other' = other
       /\ agent' = agent
       /\ \A c \in Critics :
             (CriticStart(c) \/ CriticReturn(c, Obj(EmptyMap)))
                => (hypotheses' = hypotheses /\ obs' = obs)]_vars

\* two runs on different observations, both inside their council step with
\* a critic delegation in flight, each with its own evaluated hypotheses
C22_Witness ==
    /\ entry = "abduce"
    /\ other.entry = "abduce"
    /\ observation = TextArg
    /\ other.observation = ObjectArg
    /\ pc = "council"
    /\ other.pc = "council"
    /\ critic["empiricist"].st = "done"
    /\ critic["logician"].st = "inflight"
    /\ other.critic["empiricist"].st = "inflight"
    /\ Len(hypotheses) = 1
    /\ Len(other.hypotheses) = 2

\* the values of an AbductionResult that the models bound to [0,1]
BoundedValues(r) ==
    {r.observation.surprise_score, r.confidence}
    \cup {r.hypotheses[i].prior_probability : i \in 1..Len(r.hypotheses)}
    \cup {r.hypotheses[i].scores[d] : i \in 1..Len(r.hypotheses), d \in Dimensions}

\* C23: every result that abduce or single_shot returns has its surprise
\* score, its confidence and each hypothesis's prior probability and seven
\* scores between 0 and 1, whatever the oracle answered: a run whose oracle
\* supplied a value outside the range returns no result.
C23_ResultValuesInUnitRange ==
    result # <<>> => \A x \in BoundedValues(result[1]) : 0 <= x /\ x <= 10

\* a run ended by the validation of a model, without a result
C23_Witness ==
    /\ pc = "failed"
    /\ error = "ValidationError"
    /\ result = <<>>
    /\ hypotheses # <<>>

\* C24: when every oracle delegation eventually returns or raises, a run
\* of abduce eventually ends, with an AbductionResult or with an exception
\* that propagated; and a council step all of whose critics have completed
\* or failed ends.
C24_AbduceEnds ==
    /\ (entry = "abduce")
          ~> (\/ pc = "done" /\ result # <<>>
              \/ pc = "failed" /\ error # "None")
    /\ (pc = "council" /\ \A c \in Critics : critic[c].st \in {"done", "failed"})
          ~> (pc # "council")

\* a run of abduce that ended with a result after a council step in which
\* a critic failed and another one completed
C24_Witness ==
    /\ entry = "abduce"
    /\ pc = "done"
    /\ result # <<>>
    /\ \E c, d \in Critics : critic[c].st = "failed" /\ critic[d].st = "done"

\* ------------------------------------------------------------------------
\* AbductionResult.to_json_trace, and the document parsed back
\* ------------------------------------------------------------------------
\* In this section a member of an Enum is its name, None of an Optional[str]
\* is "None", an Optional number or model is <<>> or <<x>>, a datetime is
\* [datetime |-> n], and a value of an Any-typed dictionary carries its
\* Python type.  A value of the JSON document carries its JSON type.

\* class SurpriseLevel(str, Enum): the value of each member
SurpriseLevel ==
    [EXPECTED |-> "expected", MILDLY_SURPRISING |-> "mild", SURPRISING |-> "surprising",
     HIGHLY_SURPRISING |-> "high", ANOMALOUS |-> "anomalous"]

\* class Domain(str, Enum): the value of each member
Domain ==
    [GENERAL |-> "general", FINANCIAL |-> "financial", LEGAL |-> "legal",
     MEDICAL |-> "medical", TECHNICAL |-> "technical", SCIENTIFIC |-> "scientific"]

\* class CriticPerspective(str, Enum): the value of each member
CriticPerspective ==
    [EMPIRICIST |-> "empiricist", LOGICIAN |-> "logician", PRAGMATIST |-> "pragmatist",
     ECONOMIST |-> "economist", SKEPTIC |-> "skeptic"]

PyStr(x) == [py |-> "str", s |-> x]
PyInt(x) == [py |-> "int", n |-> x]
PyList(x) == [py |-> "list", items |-> x]
PyTuple(x) == [py |-> "tuple", items |-> x]

JsNull == [js |-> "null"]
JsString(x) == [js |-> "string", s |-> x]
JsNumber(x) == [js |-> "number", n |-> x]
JsArray(x) == [js |-> "array", items |-> x]

\* datetime.isoformat() of the datetimes used
IsoFormat == <<"2024-01-01T00:00:00", "2024-01-01T00:00:01">>

\* model_dump(mode="json") of a member of a str Enum: its value
EnumValue(cls, member) == cls[member]

\* model_dump(mode="json") of a value of an Any-typed field: a tuple is
\* dumped as a JSON array, like a list
DumpAny(v) ==
    CASE v.py = "str" -> JsString(v.s)
      [] v.py = "int" -> JsNumber(v.n)
      [] v.py \in {"list", "tuple"} -> JsArray(v.items)

\* ... of a dict[str, Any]
DumpDict(d) == [k \in DOMAIN d |-> DumpAny(d[k])]

\* ... of an Optional[str]
DumpOptionalStr(x) == IF x = "None" THEN JsNull ELSE JsString(x)

\* ... of an Optional[float] or Optional[int]
DumpOptionalNumber(x) == IF x = <<>> THEN JsNull ELSE JsNumber(x[1])

\* ... of an Observation
DumpObservation(o) ==
    [fact |-> o.fact,
     context |-> DumpDict(o.context),
     expected_state |-> DumpOptionalStr(o.expected_state),
     surprise_level |-> EnumValue(SurpriseLevel, o.surprise_level),
     surprise_score |-> o.surprise_score,
     domain |-> EnumValue(Domain, o.domain),
     timestamp |-> IsoFormat[o.timestamp.datetime]]

\* ... of a Hypothesis
DumpHypothesis(h) ==
    [id |-> h.id,
     prior_probability |-> h.prior_probability,
     posterior_probability |-> DumpOptionalNumber(h.posterior_probability),
     scores |-> h.scores]

\* ... of an Optional[CouncilEvaluation]
DumpCouncil(c) ==
    IF c = <<>> THEN JsNull
    ELSE [js |-> "object",
          evaluations |-> [i \in 1..Len(c[1].evaluations) |->
                             [perspective |-> EnumValue(CriticPerspective,
                                                        c[1].evaluations[i].perspective),
                              evaluation |-> c[1].evaluations[i].evaluation]],
          recommended_hypothesis |-> DumpOptionalStr(c[1].recommended_hypothesis)]

\* ... of a ReasoningStep
DumpStep(st) ==
    [phase |-> st.phase,
     duration_ms |-> DumpOptionalNumber(st.duration_ms),
     output_data |-> IF st.output_data = <<>> THEN <<>>
                     ELSE <<DumpDict(st.output_data[1])>>]

\* to_json_trace: self.model_dump(mode="json")
ToJsonTrace(r) ==
    [observation |-> DumpObservation(r.observation),
     hypotheses |-> [i \in 1..Len(r.hypotheses) |-> DumpHypothesis(r.hypotheses[i])],
     selected_hypothesis |-> DumpOptionalStr(r.selected_hypothesis),
     council_evaluation |-> DumpCouncil(r.council_evaluation),
     reasoning_trace |-> [i \in 1..Len(r.reasoning_trace) |-> DumpStep(r.reasoning_trace[i])],
     recommended_actions |-> r.recommended_actions,
     confidence |-> r.confidence,
     metadata |-> DumpDict(r.metadata)]

\* validation of a JSON string as a member of Enum cls: the member with that
\* value, if there is one
IsEnumValue(cls, x) == \E m \in DOMAIN cls : cls[m] = x
EnumMember(cls, x) == CHOOSE m \in DOMAIN cls : cls[m] = x

\* validation of a JSON value for an Any-typed field: the value json.loads
\* gave, an array being a list
ValidateAny(j) ==
    CASE j.js = "string" -> PyStr(j.s)
      [] j.js = "number" -> PyInt(j.n)
      [] j.js = "array" -> PyList(j.items)

ValidateDict(d) == [k \in DOMAIN d |-> ValidateAny(d[k])]

ValidateOptionalStr(j) == IF j.js = "null" THEN "None" ELSE j.s

ValidateOptionalNumber(j) == IF j.js = "null" THEN <<>> ELSE <<j.n>>

\* some string of document j is not a value of the Enum, or not the ISO
\* format of a datetime, where the model has an Enum or a datetime field
FailsValidation(j) ==
    \/ ~IsEnumValue(SurpriseLevel, j.observation.surprise_level)
    \/ ~IsEnumValue(Domain, j.observation.domain)
    \/ ~\E n \in DOMAIN IsoFormat : IsoFormat[n] = j.observation.timestamp
    \/ /\ j.council_evaluation.js = "object"
       /\ \E i \in DOMAIN j.council_evaluation.evaluations :
             ~IsEnumValue(CriticPerspective, j.council_evaluation.evaluations[i].perspective)

\* AbductionResult.model_validate(json.loads(json.dumps(j)))
ModelValidate(j) ==
    IF FailsValidation(j) THEN [error |-> "ValidationError"]
    ELSE
    [observation |->
        [fact |-> j.observation.fact,
         context |-> ValidateDict(j.observation.context),
         expected_state |-> ValidateOptionalStr(j.observation.expected_state),
         surprise_level |-> EnumMember(SurpriseLevel, j.observation.surprise_level),
         surprise_score |-> j.observation.surprise_score,
         domain |-> EnumMember(Domain, j.observation.domain),
         timestamp |-> [datetime |-> CHOOSE n \in DOMAIN IsoFormat :
                                        IsoFormat[n] = j.observation.timestamp]],
     hypotheses |->
        [i \in 1..Len(j.hypotheses) |->
            [id |-> j.hypotheses[i].id,
             prior_probability |-> j.hypotheses[i].prior_probability,
             posterior_probability |->
                 ValidateOptionalNumber(j.hypotheses[i].posterior_probability),
             scores |-> j.hypotheses[i].scores]],
     selected_hypothesis |-> ValidateOptionalStr(j.selected_hypothesis),
     council_evaluation |->
        IF j.council_evaluation.js = "null" THEN <<>>
        ELSE <<[evaluations |->
                   [i \in 1..Len(j.council_evaluation.evaluations) |->
                       [perspective |->
                            EnumMember(CriticPerspective,
                                       j.council_evaluation.evaluations[i].perspective),
                        evaluation |-> j.council_evaluation.evaluations[i].evaluation]],
                recommended_hypothesis |->
                   ValidateOptionalStr(j.council_evaluation.recommended_hypothesis)]>>,
     reasoning_trace |->
        [i \in 1..Len(j.reasoning_trace) |->
            [phase |-> j.reasoning_trace[i].phase,
             duration_ms |-> ValidateOptionalNumber(j.reasoning_trace[i].duration_ms),
             output_data |-> IF j.reasoning_trace[i].output_data = <<>> THEN <<>>
                             ELSE <<ValidateDict(j.reasoning_trace[i].output_data[1])>>]],
     recommended_actions |-> j.recommended_actions,
     confidence |-> j.confidence,
     metadata |-> ValidateDict(j.metadata)]

\* values of an Any-typed dictionary
AnyValues == {PyStr("a"), PyInt(1), PyList(<<>>), PyList(<<1, 2>>), PyTuple(<<1, 2>>)}

\* dict[str, Any] values: empty, or one key
AnyDicts == {EmptyMap} \cup {[k |-> v] : v \in AnyValues}

\* valid Observation objects
ValidObservations ==
    [fact : {"F"},
     context : AnyDicts,
     expected_state : {"None", "e"},
     surprise_level : {"SURPRISING", "HIGHLY_SURPRISING"},
     surprise_score : {DefaultScore},
     domain : {"GENERAL", "TECHNICAL"},
     timestamp : {[datetime |-> 1], [datetime |-> 2]}]

\* valid Hypothesis objects
ValidHypotheses ==
    {[id |-> "H1", prior_probability |-> DefaultScore, posterior_probability |-> <<>>,
      scores |-> DefaultScores],
     [id |-> "H2", prior_probability |-> 3, posterior_probability |-> <<7>>,
      scores |-> [DefaultScores EXCEPT !["parsimony"] = 2]]}

\* valid values of council_evaluation
ValidCouncils ==
    {<<>>,
     <<[evaluations |-> <<[perspective |-> "SKEPTIC", evaluation |-> "ok"]>>,
        recommended_hypothesis |-> "None"]>>}

\* valid values of reasoning_trace
ValidTraces ==
    {<<>>}
    \cup {<<[phase |-> "selection", duration_ms |-> <<3>>, output_data |-> <<d>>]>> :
            d \in {[k |-> PyList(<<1, 2>>)], [k |-> PyTuple(<<1, 2>>)]}}

\* to_json_trace is called on result r
ToJsonTraceCall(r) == [name |-> "to_json_trace", arg |-> r, ret |-> <<>>]

\* to_json_trace returns; the document is dumped, loaded and validated
ToJsonTraceReturn ==
    /\ fn.name = "to_json_trace"
    /\ fn.ret = <<>>
    /\ fn' = [fn EXCEPT !.ret = <<[trace |-> ToJsonTrace(fn.arg),
                                   parsed |-> ModelValidate(ToJsonTrace(fn.arg))]>>]
    /\ UNCHANGED <<agent, run, mcp, other>>

\* an AbductionResult built from valid field values, about to be serialized
InitRoundTrip ==
    /\ IdleAgent
    /\ \E o \in ValidObservations, hs \in SeqsUpTo(ValidHypotheses, MaxHyps),
          sel \in {"None", "H1"}, c \in ValidCouncils, t \in ValidTraces,
          m \in AnyDicts :
          fn = ToJsonTraceCall([observation |-> o, hypotheses |-> hs,
                                selected_hypothesis |-> sel, council_evaluation |-> c,
                                reasoning_trace |-> t, recommended_actions |-> <<"a1">>,
                                confidence |-> 8, metadata |-> m])

NextRoundTrip == ToJsonTraceReturn

SpecRoundTrip == InitRoundTrip /\ [][NextRoundTrip]_vars

\* ------------------------------------------------------------------------
\* Domain names
\* ------------------------------------------------------------------------
\* [d.value for d in Domain]
DomainValues == {Domain[m] : m \in DOMAIN Domain}

\* Domain(name): the member with that value, or ValueError
DomainOf(name) ==
    IF name \in DomainValues THEN [raised |-> "None", domain |-> name]
    ELSE [raised |-> "ValueError", domain |-> "None"]

\* try: Domain(name) / except ValueError: Domain.GENERAL
DomainOrGeneral(name) ==
    IF DomainOf(name).raised = "ValueError" THEN "general" ELSE DomainOf(name).domain

\* DOMAIN_GUIDANCE.get(domain, DOMAIN_GUIDANCE[Domain.GENERAL]): the guidance
\* text, named by the domain it is written for; every member has one
GuidanceFor(domain) == IF domain \in DomainValues THEN domain ELSE "general"

\* get_domain_guidance(domain_name)
GetDomainGuidance(domain_name) ==
    [raised |-> "None", guidance |-> GuidanceFor(DomainOrGeneral(domain_name))]

\* AbductionAgent(domain=name): self.domain = Domain(domain) for a str, with
\* nothing around it that catches the ValueError
AgentInitDomain(name) == DomainOf(name)

\* domain names a caller may pass: the six of the enumeration and others
DomainArgs == DomainValues \cup {"astrology", "General", "", "tech"}

\* ------------------------------------------------------------------------
\* MCP server: the tools as functions of their arguments
\* ------------------------------------------------------------------------
\* CHARACTER_LIMIT = 50000
CHARACTER_LIMIT == 50000

\* max_length=5000 of ObserveAnomalyInput.observation and .context
MaxInputLength == 5000

\* A text argument is its length in characters and whether its characters
\* are outside ASCII: json.dumps writes such a character as a six-character
\* escape.
JsonLength(t) == IF t.wide THEN 6 * t.chars ELSE t.chars

\* the length of a response apart from the arguments it quotes: the prompt
\* template with SYSTEM_DIRECTIVE and the guidance, and the JSON around it
FixedText ==
    [peircean_observe_anomaly |-> 2500, peircean_generate_hypotheses |-> 2600,
     peircean_evaluate_via_ibe |-> 3000, peircean_abduce_single_shot |-> 3000,
     peircean_critic_evaluate |-> 1000]

\* the length of an error response, and of the truncation notice
ErrorLength == 300
NoticeLength == 250

\* a JSON text that is a number, and one that is an array
JsonNumber == [json |-> "number", data |-> EmptyMap]
JsonArray == [json |-> "array", data |-> EmptyMap]

\* A string returned by a tool is the document it was dumped from, the
\* length of the whole dump and the number of its characters that are
\* returned; a call that raised returns nothing.
ToolReturned(doc, n) == [raised |-> "None", doc |-> doc, full |-> n, kept |-> n]
ToolRaised(e) == [raised |-> e, doc |-> EmptyMap, full |-> 0, kept |-> 0]

\* json.loads of a returned string: a dump cut before its end is not JSON
LoadsReturned(r) == IF r.kept < r.full THEN Invalid ELSE Obj(r.doc)

\* _truncate_response(response): a response over the limit is parsed, gets
\* the "_truncation" notice, is dumped again and cut at the limit.  (Every
\* response the tools pass is the dump of a dict.)
TruncateResponse(response) ==
    IF response.full <= CHARACTER_LIMIT THEN response
    ELSE [raised |-> "None",
          doc |-> [response.doc EXCEPT !.truncated = TRUE],
          full |-> response.full + NoticeLength,
          kept |-> CHARACTER_LIMIT]

\* format_error_response(..., code): the dump of an error document
FormatErrorResponse(code) ==
    ToolReturned([type |-> "error", code |-> code, truncated |-> FALSE], ErrorLength)

\* _parse_anomaly_json(anomaly_json): json.loads, then `"anomaly" in
\* anomaly_data`, which is a TypeError on a number
ParseAnomalyJson(anomaly_json) ==
    CASE anomaly_json.json = "invalid" ->
           [error |-> TRUE, raised |-> "None", anomaly |-> Invalid]
      [] anomaly_json.json = "number" ->
           [error |-> FALSE, raised |-> "TypeError", anomaly |-> Invalid]
      [] anomaly_json.json = "array" ->
           [error |-> FALSE, raised |-> "None", anomaly |-> anomaly_json]
      [] OTHER ->
           [error |-> FALSE, raised |-> "None",
            anomaly |-> Get(anomaly_json.data, "anomaly", anomaly_json)]

\* _parse_hypotheses_json(hypotheses_json)
ParseHypothesesJson(hypotheses_json) ==
    CASE hypotheses_json.json = "invalid" -> [error |-> TRUE, raised |-> "None"]
      [] hypotheses_json.json = "number" -> [error |-> FALSE, raised |-> "TypeError"]
      [] OTHER -> [error |-> FALSE, raised |-> "None"]

\* the length of anomaly.get("fact", str(anomaly)) in the response
FactLength(anomaly) ==
    IF "fact" \in DOMAIN anomaly.data THEN JsonLength(anomaly.data.fact) ELSE 2

\* the length of json.dumps(hypotheses, indent=2) in the response
HypothesesLength == 20

\* the dump of a prompt document
PromptResponse(tool, doc, quoted) ==
    TruncateResponse(ToolReturned(doc, FixedText[tool] + quoted))

\* peircean_observe_anomaly(observation, context, domain)
PeirceanObserveAnomaly(a) ==
    IF \/ a.observation.chars = 0
       \/ a.observation.chars > MaxInputLength
       \/ a.context # <<>> /\ a.context[1].chars > MaxInputLength
    THEN FormatErrorResponse("validation_error")
    ELSE PromptResponse("peircean_observe_anomaly",
                        [type |-> "prompt", phase |-> "1",
                         next_tool |-> "peircean_generate_hypotheses",
                         guidance |-> GuidanceFor(DomainOrGeneral(a.domain)),
                         truncated |-> FALSE],
                        JsonLength(a.observation)
                        + (IF a.context = <<>> THEN 0 ELSE JsonLength(a.context[1])))

\* peircean_generate_hypotheses(anomaly_json, num_hypotheses)
PeirceanGenerateHypotheses(a) ==
    LET parsed == ParseAnomalyJson(a.anomaly_json)
        anomaly == parsed.anomaly
    IN  IF a.num_hypotheses < MinCount \/ a.num_hypotheses > MaxCount
        THEN FormatErrorResponse("invalid_value")
        ELSE IF parsed.raised # "None" THEN ToolRaised(parsed.raised)
        ELSE IF parsed.error THEN FormatErrorResponse("invalid_json")
        ELSE IF anomaly.json # "object" THEN ToolRaised("AttributeError")
        ELSE PromptResponse("peircean_generate_hypotheses",
                            [type |-> "prompt", phase |-> "2",
                             next_tool |-> "peircean_evaluate_via_ibe",
                             guidance |-> GuidanceFor(DomainOrGeneral(
                                              Get(anomaly.data, "domain", "general"))),
                             truncated |-> FALSE],
                            2 * FactLength(anomaly))

\* mutant: the last phase names the first tool as the next one
EvaluateNextToolObserve == "peircean_observe_anomaly"

\* "next_tool": None in the response of peircean_evaluate_via_ibe
EvaluateNextTool == "None"

\* peircean_evaluate_via_ibe(anomaly_json, hypotheses_json, use_council,
\* custom_council)
PeirceanEvaluateViaIbe(a) ==
    LET parsed == ParseAnomalyJson(a.anomaly_json)
        anomaly == parsed.anomaly
        hyps == ParseHypothesesJson(a.hypotheses_json)
    IN  IF parsed.raised # "None" THEN ToolRaised(parsed.raised)
        ELSE IF parsed.error THEN FormatErrorResponse("invalid_json")
        ELSE IF hyps.raised # "None" THEN ToolRaised(hyps.raised)
        ELSE IF hyps.error THEN FormatErrorResponse("invalid_json")
        ELSE IF anomaly.json # "object" THEN ToolRaised("AttributeError")
        ELSE PromptResponse("peircean_evaluate_via_ibe",
                            [type |-> "prompt", phase |-> "3", next_tool |-> EvaluateNextTool,
                             council |-> a.use_council, truncated |-> FALSE],
                            FactLength(anomaly) + HypothesesLength)

\* peircean_abduce_single_shot(observation, context, domain, num_hypotheses)
PeirceanAbduceSingleShot(a) ==
    IF a.observation.chars = 0
    THEN FormatErrorResponse("validation_error")
    ELSE IF a.num_hypotheses < MinCount \/ a.num_hypotheses > MaxCount
    THEN FormatErrorResponse("invalid_value")
    ELSE PromptResponse("peircean_abduce_single_shot",
                        [type |-> "prompt", phase |-> "single_shot",
                         guidance |-> GuidanceFor(DomainOrGeneral(a.domain)),
                         truncated |-> FALSE],
                        JsonLength(a.observation)
                        + (IF a.context = <<>> THEN 0 ELSE JsonLength(a.context[1])))

\* peircean_critic_evaluate(critic, anomaly_json, hypotheses_json)
PeirceanCriticEvaluate(a) ==
    LET parsed == ParseAnomalyJson(a.anomaly_json)
        anomaly == parsed.anomaly
        hyps == ParseHypothesesJson(a.hypotheses_json)
    IN  IF parsed.raised # "None" THEN ToolRaised(parsed.raised)
        ELSE IF parsed.error THEN FormatErrorResponse("invalid_json")
        ELSE IF hyps.raised # "None" THEN ToolRaised(hyps.raised)
        ELSE IF hyps.error THEN FormatErrorResponse("invalid_json")
        ELSE IF anomaly.json # "object" THEN ToolRaised("AttributeError")
        ELSE PromptResponse("peircean_critic_evaluate",
                            [type |-> "prompt", phase |-> "critic_evaluation",
                             critic |-> IF a.critic = "" THEN "general_critic" ELSE a.critic,
                             truncated |-> FALSE],
                            FactLength(anomaly) + HypothesesLength)

\* the tool called with arguments a
ToolResponse(tool, a) ==
    CASE tool = "peircean_observe_anomaly" -> PeirceanObserveAnomaly(a)
      [] tool = "peircean_generate_hypotheses" -> PeirceanGenerateHypotheses(a)
      [] tool = "peircean_evaluate_via_ibe" -> PeirceanEvaluateViaIbe(a)
      [] tool = "peircean_abduce_single_shot" -> PeirceanAbduceSingleShot(a)
      [] tool = "peircean_critic_evaluate" -> PeirceanCriticEvaluate(a)

\* text arguments
McpTexts ==
    {[chars |-> n, wide |-> w] :
        n \in {0, 10, MaxInputLength, MaxInputLength + 1, CHARACTER_LIMIT}, w \in BOOLEAN}

\* context arguments: None or a text
McpContexts ==
    {<<>>, <<[chars |-> 10, wide |-> FALSE]>>, <<[chars |-> MaxInputLength, wide |-> TRUE]>>,
     <<[chars |-> MaxInputLength + 1, wide |-> FALSE]>>}

McpDomains == {"general", "technical", "astrology", "General"}

McpCounts == {MinCount - 1, DefaultCount, MaxCount + 1}

\* anomaly_json arguments
AnomalyJsons ==
    {Invalid, JsonNumber, JsonArray, Obj(EmptyMap),
     Obj([fact |-> [chars |-> 10, wide |-> FALSE]]),
     Obj([fact |-> [chars |-> 10, wide |-> FALSE], domain |-> "technical"]),
     Obj([fact |-> [chars |-> 10, wide |-> FALSE], domain |-> "astrology"]),
     Obj([fact |-> [chars |-> CHARACTER_LIMIT, wide |-> FALSE]]),
     Obj([anomaly |-> Obj([fact |-> [chars |-> 10, wide |-> FALSE],
                          domain |-> "technical"])]),
     Obj([anomaly |-> JsonArray])}

\* hypotheses_json arguments
HypothesesJsons ==
    {Invalid, JsonNumber, JsonArray, Obj(EmptyMap), Obj([hypotheses |-> JsonArray])}

\* the arguments a client may pass to each tool
ToolArgs ==
    [peircean_observe_anomaly |->
        [observation : McpTexts, context : McpContexts, domain : McpDomains],
     peircean_generate_hypotheses |->
        [anomaly_json : AnomalyJsons, num_hypotheses : McpCounts],
     peircean_evaluate_via_ibe |->
        [anomaly_json : AnomalyJsons, hypotheses_json : HypothesesJsons,
         use_council : BOOLEAN],
     peircean_abduce_single_shot |->
        [observation : McpTexts, context : McpContexts, domain : McpDomains,
         num_hypotheses : McpCounts],
     peircean_critic_evaluate |->
        [critic : {"", "skeptic"}, anomaly_json : AnomalyJsons,
         hypotheses_json : HypothesesJsons]]

Tools == DOMAIN ToolArgs

\* the response r parses as a prompt document
IsPrompt(r) ==
    /\ r.raised = "None"
    /\ LoadsReturned(r).json = "object"
    /\ LoadsReturned(r).data.type = "prompt"

\* the tool the last response names as the next one: "None" when there is
\* no last response, when it is not a prompt, or when it names none
NextToolNamed ==
    IF mcp_response # <<>> /\ IsPrompt(mcp_response[1])
    THEN Get(LoadsReturned(mcp_response[1]).data, "next_tool", "None")
    ELSE "None"

\* a client calls a tool: any tool as its first call, afterwards the tool
\* that the last response names in next_tool
McpCall(tool, a) ==
    /\ mcp_request = <<>> \/ NextToolNamed = tool
    /\ mcp_request' = <<[tool |-> tool, args |-> a]>>
    /\ mcp_response' = <<ToolResponse(tool, a)>>
    /\ UNCHANGED <<agent, run, fn, other>>

NextMcp == \E tool \in Tools : \E a \in ToolArgs[tool] : McpCall(tool, a)

\* no tool has been called
InitMcp ==
    /\ IdleAgent
    /\ fn = NoCall

SpecMcp == InitMcp /\ [][NextMcp]_vars

\* a function that takes a domain name is called on its own
DomainCall(f, name) == [name |-> f, arg |-> name, ret |-> <<>>]

\* ... and returns or raises
DomainReturn ==
    /\ fn.name \in {"get_domain_guidance", "AbductionAgent"}
    /\ fn.ret = <<>>
    /\ fn' = [fn EXCEPT !.ret =
                 IF fn.name = "get_domain_guidance"
                 THEN <<GetDomainGuidance(fn.arg)>>
                 ELSE <<AgentInitDomain(fn.arg)>>]
    /\ UNCHANGED <<agent, run, mcp, other>>

\* a domain name reaches the guidance resource or the agent's constructor,
\* or a client calls the tools
InitDomain ==
    /\ IdleAgent
    /\ \/ fn = NoCall
       \/ \E f \in {"get_domain_guidance", "AbductionAgent"}, name \in DomainArgs :
             fn = DomainCall(f, name)

NextDomain ==
    \/ DomainReturn
    \/ fn = NoCall /\ NextMcp

SpecDomain == InitDomain /\ [][NextDomain]_vars

\* ------------------------------------------------------------------------
\* The composite score shown in the selection request, the evaluation trace
\* step and the report
\* ------------------------------------------------------------------------
\* mutant: the composite score is computed with the agent's selection weights
CompositeScoreWithSelectionWeights(h) == Composite(h.scores, fn.selection_weights)

\* Hypothesis.composite_score: self.scores.composite(), without weights
CompositeScore(h) == Composite(h.scores, <<>>)

\* self.selection_weights = selection_weights or {the default weights}
SelectionWeights(selection_weights) == WeightsOrDefault(selection_weights)

\* format_selection_prompt(observation, evaluated_hypotheses, weights): the
\* hypotheses_json and the weights_json of the request
FormatSelectionPrompt(evaluated_hypotheses, weights) ==
    [hypotheses |-> [i \in 1..Len(evaluated_hypotheses) |->
                       [id |-> evaluated_hypotheses[i].id,
                        scores |-> evaluated_hypotheses[i].scores,
                        composite_score |-> CompositeScore(evaluated_hypotheses[i])]],
     weights |-> WeightsOrDefault(<<weights>>)]

\* output_data={h.id: h.composite_score for h in evaluated} of the
\* evaluation trace step: a later hypothesis replaces an earlier one of the
\* same id
EvaluationStepOutput(evaluated) ==
    [id \in {evaluated[i].id : i \in 1..Len(evaluated)} |->
        CompositeScore(evaluated[CHOOSE i \in 1..Len(evaluated) :
                          /\ evaluated[i].id = id
                          /\ \A j \in (i + 1)..Len(evaluated) : evaluated[j].id # id])]

RECURSIVE InsertByComposite(_, _)
\* h inserted into hs, which is in descending order of composite score,
\* after the hypotheses that score at least as much
InsertByComposite(h, hs) ==
    IF hs = <<>> THEN <<h>>
    ELSE IF CompositeScore(Head(hs)) >= CompositeScore(h)
         THEN <<Head(hs)>> \o InsertByComposite(h, Tail(hs))
         ELSE <<h>> \o hs

RECURSIVE SortedByComposite(_)
\* sorted(self.hypotheses, key=lambda x: x.composite_score, reverse=True) of
\* to_markdown: descending, equal scores in their original order
SortedByComposite(hs) ==
    IF hs = <<>> THEN <<>>
    ELSE LET front == SubSeq(hs, 1, Len(hs) - 1)
         IN  InsertByComposite(hs[Len(hs)], SortedByComposite(front))

\* the scores of an evaluated hypothesis: the defaults, one strong in
\* explanatory power only, one strong in parsimony and testability only
EvaluatedScores ==
    {DefaultScores,
     [d \in Dimensions |-> IF d = "explanatory_power" THEN ScoreMax ELSE ScoreMin],
     [d \in Dimensions |-> IF d \in {"parsimony", "testability"} THEN ScoreMax ELSE ScoreMin]}

\* the evaluated hypotheses of a run: H1, H2, ... with any of those scores
EvaluatedLists ==
    UNION {{[i \in 1..n |-> [id |-> DefaultId(i), prior_probability |-> DefaultScore,
                             scores |-> sc[i]]] : sc \in [1..n -> EvaluatedScores]} :
           n \in 0..MaxHyps}

\* an agent constructed with selection_weights w has evaluated hs and is
\* about to show their composite scores
CompositeScoreCall(w, hs) ==
    [name |-> "composite_score", selection_weights |-> w, hypotheses |-> hs, out |-> <<>>]

\* ... in the selection request, the evaluation trace step and the report
CompositeScoreReturn ==
    /\ fn.name = "composite_score"
    /\ fn.out = <<>>
    /\ fn' = [fn EXCEPT !.out =
                 <<[prompt |-> FormatSelectionPrompt(fn.hypotheses,
                                                     SelectionWeights(fn.selection_weights)),
                    evaluation_step |-> EvaluationStepOutput(fn.hypotheses),
                    report |-> SortedByComposite(fn.hypotheses)]>>]
    /\ UNCHANGED <<agent, run, mcp, other>>

InitCompositeScore ==
    /\ IdleAgent
    /\ \E w \in WeightArgs, hs \in EvaluatedLists : fn = CompositeScoreCall(w, hs)

NextCompositeScore == CompositeScoreReturn

SpecCompositeScore == InitCompositeScore /\ [][NextCompositeScore]_vars

\* r with the timestamp of its observation set aside
TimestampAside(r) == [r EXCEPT !.observation.timestamp = [datetime |-> 0]]

\* parsing gave a result, equal to r in every field but the timestamp
SameTimestampAside(parsed, r) ==
    /\ "observation" \in DOMAIN parsed
    /\ TimestampAside(parsed) = TimestampAside(r)

\* the Any-typed dictionaries of r hold JSON values only: no tuple
HoldsJsonValues(r) ==
    /\ \A k \in DOMAIN r.observation.context : r.observation.context[k].py # "tuple"
    /\ \A k \in DOMAIN r.metadata : r.metadata[k].py # "tuple"
    /\ \A i \in 1..Len(r.reasoning_trace) :
          r.reasoning_trace[i].output_data # <<>> =>
             \A k \in DOMAIN r.reasoning_trace[i].output_data[1] :
                r.reasoning_trace[i].output_data[1][k].py # "tuple"

\* C25 as stated: every AbductionResult built from valid field values,
\* serialized with to_json_trace and parsed back, equals the original in
\* every field, the timestamp aside.
C25_RoundTripIsIdentity ==
    (fn.name = "to_json_trace" /\ fn.ret # <<>>)
       => SameTimestampAside(fn.ret[1].parsed, fn.arg)

\* what does hold: an AbductionResult whose free-form dictionaries (context,
\* metadata, the data of a trace step) hold JSON values only comes back
\* equal in every field; a tuple in such a dictionary comes back as a list.
RoundTripOfJsonValues ==
    (fn.name = "to_json_trace" /\ fn.ret # <<>> /\ HoldsJsonValues(fn.arg))
       => SameTimestampAside(fn.ret[1].parsed, fn.arg)

\* C26: a domain name outside the enumeration gets the "general" guidance,
\* and no error, from the guidance resource, from the MCP tools that take a
\* domain, and from the agent's constructor.
C26_UnknownDomainIsGeneral ==
    /\ (fn.name \in {"get_domain_guidance", "AbductionAgent"}
          /\ fn.ret # <<>> /\ fn.arg \notin DomainValues)
         => /\ fn.ret[1].raised = "None"
            /\ fn.name = "get_domain_guidance" => fn.ret[1].guidance = "general"
            /\ fn.name = "AbductionAgent" => fn.ret[1].domain = "general"
    /\ (/\ mcp_request # <<>>
        /\ mcp_request[1].tool \in {"peircean_observe_anomaly",
                                    "peircean_abduce_single_shot"}
        /\ mcp_request[1].args.domain \notin DomainValues
        /\ IsPrompt(mcp_response[1]))
         => LoadsReturned(mcp_response[1]).data.guidance = "general"
    /\ (/\ mcp_request # <<>>
        /\ mcp_request[1].tool = "peircean_generate_hypotheses"
        /\ mcp_request[1].args.anomaly_json.json = "object"
        /\ Get(mcp_request[1].args.anomaly_json.data, "domain", "general")
              \notin DomainValues
        /\ IsPrompt(mcp_response[1]))
         => LoadsReturned(mcp_response[1]).data.guidance = "general"

\* the phase of prompt response r, as a number; 0 for a tool outside the
\* three phases
PhaseNumber(r) ==
    LET phase == LoadsReturned(r).data.phase
    IN  CASE phase = "1" -> 1 [] phase = "2" -> 2 [] phase = "3" -> 3 [] OTHER -> 0

\* a prompt response of a phase tool has that tool's phase and next_tool
PhaseAndNextTool ==
    (mcp_request # <<>> /\ IsPrompt(mcp_response[1])) =>
       LET doc == LoadsReturned(mcp_response[1]).data
           tool == mcp_request[1].tool
       IN  /\ tool = "peircean_observe_anomaly"
                => doc.phase = "1" /\ doc.next_tool = "peircean_generate_hypotheses"
           /\ tool = "peircean_generate_hypotheses"
                => doc.phase = "2" /\ doc.next_tool = "peircean_evaluate_via_ibe"
           /\ tool = "peircean_evaluate_via_ibe"
                => doc.phase = "3" /\ doc.next_tool = "None"

\* C27: a successful response of peircean_observe_anomaly has phase 1 and
\* names peircean_generate_hypotheses, one of peircean_generate_hypotheses
\* has phase 2 and names peircean_evaluate_via_ibe, one of
\* peircean_evaluate_via_ibe has phase 3 and names no tool; so a client that
\* follows next_tool goes from a phase to the next higher one, and makes no
\* call after phase 3.
C27_PhaseChainEnds ==
    [][/\ PhaseAndNextTool'
       /\ mcp_request # <<>> =>
            /\ IsPrompt(mcp_response[1])
            /\ PhaseNumber(mcp_response[1]) \in {1, 2}
            /\ mcp_request'[1].tool
                 = LoadsReturned(mcp_response[1]).data.next_tool
            /\ IsPrompt(mcp_response'[1])
                 => PhaseNumber(mcp_response'[1]) = PhaseNumber(mcp_response[1]) + 1]_vars

\* the client is at the end of the chain: the last phase answered with its
\* prompt and no tool can be called next
C27_Witness ==
    /\ mcp_request # <<>>
    /\ mcp_request[1].tool = "peircean_evaluate_via_ibe"
    /\ IsPrompt(mcp_response[1])
    /\ PhaseNumber(mcp_response[1]) = 3
    /\ ~ENABLED NextMcp

\* C28: every MCP tool call returns a string that parses as a JSON object
\* of type "prompt" or "error", whatever its input: no call raises, and no
\* call returns a string that is not JSON.
C28_AlwaysPromptOrError ==
    mcp_response # <<>> =>
       /\ mcp_response[1].raised = "None"
       /\ LoadsReturned(mcp_response[1]).json = "object"
       /\ LoadsReturned(mcp_response[1]).data.type \in {"prompt", "error"}

\* C29: the selection request shows, for every hypothesis, its scores after
\* evaluation and the composite of those scores under the default weights,
\* so a hypothesis with the highest composite under the default weights has
\* the highest composite shown; the evaluation trace step gives the same
\* composite and the report ranks by it; none of it depends on the
\* selection_weights the agent was constructed with.
C29_CompositeUsesDefaultWeights ==
    (fn.name = "composite_score" /\ fn.out # <<>>) =>
       LET hs == fn.hypotheses
           shown == fn.out[1].prompt.hypotheses
           report == fn.out[1].report
           default(h) == WeightedSum(default_weights, h.scores)
       IN  /\ Len(shown) = Len(hs)
           /\ \A i \in 1..Len(hs) :
                 /\ shown[i].id = hs[i].id
                 /\ shown[i].scores = hs[i].scores
                 /\ shown[i].composite_score = default(hs[i])
                 /\ fn.out[1].evaluation_step[hs[i].id] = default(hs[i])
                 /\ (\A j \in 1..Len(hs) : default(hs[j]) <= default(hs[i]))
                       => \A j \in 1..Len(hs) :
                             shown[j].composite_score <= shown[i].composite_score
           /\ Len(report) = Len(hs)
           /\ \A i \in 1..Len(hs) : \E j \in 1..Len(report) : report[j] = hs[i]
           /\ \A i, j \in 1..Len(report) :
                 i < j => default(report[i]) >= default(report[j])

\* an agent with custom weights under which the order of two hypotheses is
\* the reverse of their order under the default weights has shown them
C29_Witness ==
    /\ fn.name = "composite_score"
    /\ fn.out # <<>>
    /\ fn.selection_weights # <<>>
    /\ \E i, j \in 1..Len(fn.hypotheses) :
          /\ WeightedSum(default_weights, fn.hypotheses[i].scores)
               > WeightedSum(default_weights, fn.hypotheses[j].scores)
          /\ WeightedSum(SelectionWeights(fn.selection_weights), fn.hypotheses[i].scores)
               < WeightedSum(SelectionWeights(fn.selection_weights), fn.hypotheses[j].scores)

\* a step of the council: a critic task starts or ends, or gather is over
CouncilStep ==
    \/ \E c \in Critics : CriticStart(c) \/ CriticRaise(c)
    \/ \E c \in Critics, resp \in BasicCriticResponses : CriticReturn(c, resp)
    \/ CouncilJoin

====
